---- MODULE Spec2Model ----
(***************************************************************************)
(* A model of the triangular-arbitrage engine: the transactional Wallet    *)
(* (src/src/core/wallet.cpp), the Simulator's atomic three-leg execute     *)
(* (src/src/engine/simulator.cpp) and the TriangleScanner's cooldown and   *)
(* failure blacklist (src/src/engine/triangle_scanner.cpp).                *)
(*                                                                         *)
(* Amounts are C++ doubles.  They are modelled as a small binary floating  *)
(* point format: integers (multiples of the smallest unit) that carry at   *)
(* most MantBits significant bits, every arithmetic result rounded to the  *)
(* nearest representable value, ties to even, as IEEE-754 does.            *)
(***************************************************************************)
EXTENDS Integers, Sequences, FiniteSets, TLC, Bags

\* ------------------------------------------------------------------ bounds
\* significant bits of the modelled floating point format (a double has 53)
MantBits == 3
\* transactions one behaviour of the wallet specification may begin
MaxTx == 1
\* changes one transaction may record in the wallet specification
MaxChanges == 1
\* applyChange calls of the round-trip specification
MaxApplies == 2
\* the last second of the scanner specification's clock
MaxTime == 30
\* the last second of the blacklist specification's clock
MaxAgeTime == 65
\* successful trades of the scanner specification
MaxTrades == 1
\* calls of simulateTradeDepthWithWallet in the execute specification
MaxExecs == 2
\* messages one behaviour of the market specification may handle
MaxMsgs == 3
\* consecutive reconnection attempts of one worker that are counted
MaxAttempts == 9
\* calls of throttleRequest in the limiter specification
MaxCalls == 5
\* sleeps and pauses between calls in the limiter specification
MaxTicks == 3
\* BinanceDryExecutor::maxRequestsPerMinute_ (1200 unless set), scaled down
maxRequestsPerMinute_ == 4
\* BinanceDryExecutor::maxOrdersPerSec_ (10 unless set), scaled down
maxOrdersPerSec_ == 2

\* ------------------------------------------------------- double arithmetic
Abs(x) == IF x < 0 THEN -x ELSE x

Sign(x) == IF x < 0 THEN -1 ELSE 1

RECURSIVE Pow2(_)
Pow2(n) == IF n <= 0 THEN 1 ELSE 2 * Pow2(n - 1)

\* The spacing u (a power of two) of the representable values around a/d:
\* the smallest u with a/d < 2^MantBits * u.
RECURSIVE UlpFrom(_, _, _)
UlpFrom(a, d, u) == IF a < Pow2(MantBits) * u * d THEN u ELSE UlpFrom(a, d, 2 * u)

\* The rational n/d (d > 0) rounded to the nearest representable value,
\* ties to the even mantissa.
RoundRat(n, d) ==
    LET a == Abs(n)
        u == UlpFrom(a, d, 1)
        q == a \div (u * d)
        r == a % (u * d)
        m == IF 2 * r < u * d THEN q
             ELSE IF 2 * r > u * d THEN q + 1
             ELSE IF q % 2 = 0 THEN q ELSE q + 1
    IN Sign(n) * m * u

\* a + b and a - b on doubles
FAdd(a, b) == RoundRat(a + b, 1)

FSub(a, b) == RoundRat(a - b, 1)

\* ------------------------------------------------------------------ names
\* std::string values whose characters the code inspects (parseSymbol's
\* suffix match, std::sort's lexicographic order) are sequences of characters.
BTC == <<"B", "T", "C">>

ETH == <<"E", "T", "H">>

USDT == <<"U", "S", "D", "T">>

BNB == <<"B", "N", "B">>

BUSD == <<"B", "U", "S", "D">>

USDC == <<"U", "S", "D", "C">>

\* ------------------------------------------------------------------ state
VARIABLES
    balances_,        \* Wallet::balances_ : asset -> total
    locked_,          \* Wallet::locked_   : asset -> locked
    txs,              \* the WalletTransaction objects begun so far
    call,             \* the call made by the last step, with its result
    snap,             \* the wallet when the round-trip transaction was begun
    now,              \* std::chrono::steady_clock, in seconds
    lastAttemptMap_,  \* TriangleScanner::lastAttemptMap_ : key -> time
    failTimestamps_,  \* TriangleScanner::failTimestamps_ : key -> times
    lastProfits_,     \* TriangleScanner::lastProfits_ : triangle index -> profit
    totalTrades_,     \* Simulator::totalTrades_
    scan,             \* the scanning threads: position and locals
    lastStart,        \* key -> time its last execute was entered
    cfg,              \* main: the values the configuration file gives
    cumulativeProfit_, \* Simulator::cumulativeProfit_
    liveMode_,        \* Simulator::liveMode_
    assetLocks_,      \* Simulator::assetLocks_ : asset -> holder, 0 when free
    mutexHolder,      \* walletMutex_, throttleMutex_, logMutex -> holder, 0 when free
    ex,               \* the threads inside simulateTradeDepthWithWallet
    failReason,       \* thread -> *failReason of its last call
    orders,           \* the placeMarketOrder calls made so far, in order
    execs,            \* calls of simulateTradeDepthWithWallet so far
    exchangeInfo,     \* the "symbols" array /exchangeInfo answers with
    adjacencyOrder,   \* the order in which the adjacency map is iterated
    bfsTriangles,     \* TriangleScanner::triangles_ as buildTrianglesBFS fills it
    bfsIndex,         \* TriangleScanner::symbolToTriangles_ : name -> indices
    bestTriangles_,   \* TriangleScanner::bestTriangles_, the entries pushed
    mutexes_,         \* OrderBookManager::mutexes_, its keys
    books_,           \* OrderBookManager::books_ : symbol -> book
    lastMsgTime_,     \* OrderBookManager::lastMsgTime_ : symbol -> time
    feed,             \* the depth stream: phase, messages handled, scanner calls
    running_,         \* OrderBookManager::running_
    threads_,         \* OrderBookManager::threads_ : worker -> where its thread is
    dtor,             \* where ~OrderBookManager is
    throttle,         \* an executor's rate limiter, its clock and the calls admitted
    disk,             \* the wallet files: name -> text written by saveToFile
    store,            \* the threads inside the order book store, and its global lock
    pool              \* the scanner's ThreadPool: queue, workers, tasks, callers

walletVars == <<balances_, locked_, txs, call, snap>>

scannerVars == <<now, lastAttemptMap_, failTimestamps_, lastProfits_,
                 totalTrades_, scan, lastStart>>

simVars == <<cfg, cumulativeProfit_, liveMode_, assetLocks_, mutexHolder, ex, failReason, orders, execs>>

marketVars == <<exchangeInfo, adjacencyOrder, bfsTriangles, bfsIndex, bestTriangles_,
                mutexes_, books_, lastMsgTime_, feed>>

connVars == <<running_, threads_, dtor>>

auxVars == <<disk, store, pool>>

extVars == <<marketVars, connVars, throttle, auxVars>>

vars == <<walletVars, scannerVars, simVars, extVars>>

\* ----------------------------------------------------------------- Wallet
\* A wallet value: the two maps of the class.
Wal(bal, lck) == [bal |-> bal, lck |-> lck]

\* m[k] = v, inserting k when absent (std::unordered_map::operator[] =)
Put(m, k, v) == [x \in (DOMAIN m) \cup {k} |-> IF x = k THEN v ELSE m[x]]

\* Wallet::Wallet()
WalletCtor == Wal([a \in {BTC, ETH, USDT} |-> 0], [a \in {BTC, ETH, USDT} |-> 0])

\* Wallet::setBalance
SetBalance(w, asset, amount) ==
    Wal(Put(w.bal, asset, amount),
        IF asset \in DOMAIN w.lck THEN w.lck ELSE Put(w.lck, asset, 0))

\* Wallet::getFreeBalance
GetFreeBalance(w, asset) ==
    IF asset \notin DOMAIN w.bal THEN 0
    ELSE LET f == FSub(w.bal[asset], w.lck[asset])
         IN IF f < 0 THEN 0 ELSE f

\* Wallet::getTotalBalance
GetTotalBalance(w, asset) ==
    IF asset \notin DOMAIN w.bal THEN 0 ELSE w.bal[asset]

\* Wallet::beginTransaction
BeginTransaction == [active |-> TRUE, changes |-> <<>>]

\* Wallet::applyChange: the wallet, the transaction and the return value
ApplyChange(w, tx, asset, deltaBalance, deltaLocked) ==
    IF ~tx.active THEN [w |-> w, tx |-> tx, ok |-> FALSE]
    ELSE
      LET w0 == IF asset \in DOMAIN w.bal THEN w
                ELSE Wal(Put(w.bal, asset, 0), Put(w.lck, asset, 0))
          newBal == FAdd(w0.bal[asset], deltaBalance)
          newLock == FAdd(w0.lck[asset], deltaLocked)
      IN IF newBal < 0 \/ newLock < 0 THEN [w |-> w0, tx |-> tx, ok |-> FALSE]
         ELSE IF newLock > newBal THEN [w |-> w0, tx |-> tx, ok |-> FALSE]
         ELSE [w |-> Wal(Put(w0.bal, asset, newBal), Put(w0.lck, asset, newLock)),
               tx |-> [tx EXCEPT !.changes = Append(@,
                         [asset |-> asset, deltaBalance |-> deltaBalance,
                          deltaLocked |-> deltaLocked])],
               ok |-> TRUE]

\* commitTransaction without `tx.active = false`
CommitTransaction_KeepsActive(tx) == [tx |-> tx, ok |-> tx.active]

\* Wallet::commitTransaction: the transaction and the return value
CommitTransaction(tx) ==
    IF ~tx.active THEN [tx |-> tx, ok |-> FALSE]
    ELSE [tx |-> [tx EXCEPT !.active = FALSE], ok |-> TRUE]

\* one iteration of rollbackTransaction's loop
RevertChange(w, ch) ==
    LET b == FSub(w.bal[ch.asset], ch.deltaBalance)
        l == FSub(w.lck[ch.asset], ch.deltaLocked)
    IN Wal(Put(w.bal, ch.asset, IF b < 0 THEN 0 ELSE b),
           Put(w.lck, ch.asset, IF l < 0 THEN 0 ELSE l))

\* the loop of rollbackTransaction: changes[1..n] reverted, last first
RECURSIVE RevertAll(_, _, _)
RevertAll(w, changes, n) ==
    IF n = 0 THEN w ELSE RevertAll(RevertChange(w, changes[n]), changes, n - 1)

\* Wallet::rollbackTransaction: the wallet and the transaction
RollbackTransaction(w, tx) ==
    IF ~tx.active THEN [w |-> w, tx |-> tx]
    ELSE [w |-> RevertAll(w, tx.changes, Len(tx.changes)),
          tx |-> [tx EXCEPT !.active = FALSE]]

\* Wallet::saveToFile: the JSON object written
SaveToFile(w) == [balances |-> w.bal, locked |-> w.lck]

\* a load that reads the "balances" object alone
LoadFromFile_BalancesOnly(w, j) ==
    Wal([a \in (DOMAIN w.bal) \cup (DOMAIN j.balances) |->
           IF a \in DOMAIN j.balances THEN j.balances[a] ELSE w.bal[a]],
        [a \in (DOMAIN w.lck) \cup (DOMAIN j.balances) |->
           IF a \in DOMAIN w.lck THEN w.lck[a] ELSE 0])

\* Wallet::loadFromFile of a well-formed file
LoadFromFile(w, j) ==
    LET bal1 == [a \in (DOMAIN w.bal) \cup (DOMAIN j.balances) |->
                   IF a \in DOMAIN j.balances THEN j.balances[a] ELSE w.bal[a]]
        lck1 == [a \in (DOMAIN w.lck) \cup (DOMAIN j.balances) |->
                   IF a \in DOMAIN w.lck THEN w.lck[a] ELSE 0]
        lck2 == [a \in (DOMAIN lck1) \cup (DOMAIN j.locked) |->
                   IF a \in DOMAIN j.locked THEN j.locked[a] ELSE lck1[a]]
        bal2 == [a \in (DOMAIN bal1) \cup (DOMAIN j.locked) |->
                   IF a \in DOMAIN bal1 THEN bal1[a] ELSE j.locked[a]]
    IN Wal(bal2, lck2)

\* -------------------------------------------------------------- Simulator
\* the configuration main.cpp passes to the constructor, as fractions
feePercent_ == <<1, 1000>>

slippageTolerance_ == <<5, 1000>>

\* cfg.value("maxFractionPerTrade", 0.5)
maxFractionPerTrade_ ==
    IF "maxFractionPerTrade" \in DOMAIN cfg THEN cfg.maxFractionPerTrade ELSE <<1, 2>>

minFillRatio_ == <<1, 5>>

minProfitUSDT_ == <<1, 2>>

\* passesExchangeFilters without a filter of the symbol: minNotional 10;
\* its minQty 0.0001 and the code's 1e-12 guards lie below the smallest
\* positive amount of the model, so `x < 0.0001` and `x <= 1e-12` are x <= 0
DefaultMinNotional == 10

\* the price doLegLive passes to the filter
ApproximatePrice == 30000

UNKNOWN == <<"U", "N", "K", "N", "O", "W", "N">>

knownQuotes == <<USDT, BTC, ETH, BNB, BUSD, USDC>>

\* a * b and a / b in doubles; a times the fraction q, rounded once
FMul(a, b) == RoundRat(a * b, 1)

FDiv(a, b) == RoundRat(a, b)

FMulQ(a, q) == RoundRat(a * q[1], q[2])

\* pair ends with q and is longer
EndsWith(pair, q) ==
    /\ Len(pair) > Len(q)
    /\ SubSeq(pair, Len(pair) - Len(q) + 1, Len(pair)) = q

\* parseSymbol: the first known quote that is a proper suffix
RECURSIVE ParseFrom(_, _)
ParseFrom(pair, i) ==
    IF i > Len(knownQuotes) THEN [base |-> pair, quote |-> UNKNOWN]
    ELSE IF EndsWith(pair, knownQuotes[i])
         THEN [base |-> SubSeq(pair, 1, Len(pair) - Len(knownQuotes[i])),
               quote |-> knownQuotes[i]]
         ELSE ParseFrom(pair, i + 1)

ParseSymbol(pair) == ParseFrom(pair, 1)

\* getAssetsForPair returning the base asset alone
GetAssetsForPair_BaseOnly(pairName) ==
    LET bq == ParseSymbol(pairName)
    IN IF bq.quote = UNKNOWN THEN <<>> ELSE <<bq.base>>

\* Simulator::getAssetsForPair
GetAssetsForPair(pairName) ==
    LET bq == ParseSymbol(pairName)
    IN IF bq.quote = UNKNOWN THEN <<>> ELSE <<bq.base, bq.quote>>

\* operator< of std::string on upper case names
Alphabet == <<"A", "B", "C", "D", "E", "F", "G", "H", "I", "J", "K", "L", "M",
              "N", "O", "P", "Q", "R", "S", "T", "U", "V", "W", "X", "Y", "Z">>

CharCode(c) == CHOOSE i \in 1..Len(Alphabet) : Alphabet[i] = c

RECURSIVE StrLess(_, _)
StrLess(a, b) ==
    IF b = <<>> THEN FALSE
    ELSE IF a = <<>> THEN TRUE
    ELSE IF a[1] = b[1] THEN StrLess(Tail(a), Tail(b))
    ELSE CharCode(a[1]) < CharCode(b[1])

\* std::sort of the asset names
RECURSIVE InsertSorted(_, _)
InsertSorted(sorted, a) ==
    IF sorted = <<>> THEN <<a>>
    ELSE IF StrLess(a, sorted[1]) THEN <<a>> \o sorted
    ELSE <<sorted[1]>> \o InsertSorted(Tail(sorted), a)

RECURSIVE SortAssets(_)
SortAssets(assets) ==
    IF assets = <<>> THEN <<>>
    ELSE InsertSorted(SortAssets(Tail(assets)), assets[1])

\* the assets of the path in the order they are met, each once
RECURSIVE CollectAssets(_, _)
CollectAssets(names, acc) ==
    IF names = <<>> THEN acc
    ELSE CollectAssets(Tail(names),
            IF \E i \in 1..Len(acc) : acc[i] = names[1] THEN acc
            ELSE Append(acc, names[1]))

\* the locks in the order the path names the assets, std::sort left out
AllAssets_Unsorted(tri) ==
    CollectAssets(GetAssetsForPair(tri.path[1])
                  \o GetAssetsForPair(tri.path[2])
                  \o GetAssetsForPair(tri.path[3]), <<>>)

\* one lock set for every cycle: all the assets
AllAssets_EveryAsset(tri) == SortAssets(<<BTC, ETH, USDT, BNB, BUSD, USDC>>)

\* simulateTradeDepthWithWallet: the locks to take, in the order taken
AllAssets(tri) ==
    SortAssets(CollectAssets(GetAssetsForPair(tri.path[1])
                             \o GetAssetsForPair(tri.path[2])
                             \o GetAssetsForPair(tri.path[3]), <<>>))

\* Simulator::passesExchangeFilters, no filter loaded for the symbol
PassesExchangeFilters(quantityBase, priceEstimate) ==
    ~(FMul(quantityBase, priceEstimate) < DefaultMinNotional \/ quantityBase <= 0)

IsSell(quote) == quote \in {USDT, BTC, BUSD, ETH}

\* the partial fill across the levels: <<filled, cost, remain>>
RECURSIVE FillFrom(_, _, _)
FillFrom(levels, i, acc) ==
    IF i > Len(levels) THEN acc
    ELSE LET tradeQty == IF acc.remain < levels[i].quantity THEN acc.remain
                         ELSE levels[i].quantity
             next == [filled |-> FAdd(acc.filled, tradeQty),
                      cost |-> FAdd(acc.cost, FMul(tradeQty, levels[i].price)),
                      remain |-> FSub(acc.remain, tradeQty)]
         IN IF next.remain <= 0 THEN next ELSE FillFrom(levels, i + 1, next)

Fill(levels, desiredQtyBase) ==
    FillFrom(levels, 1, [filled |-> 0, cost |-> 0, remain |-> desiredQtyBase])

\* fillRatio < minFillRatio_ and slip > slippageTolerance_, the ratios
\* compared as exact fractions
FillRatioLow(filled, desiredQtyBase) ==
    filled * minFillRatio_[2] < desiredQtyBase * minFillRatio_[1]

SlipHigh(cost, filled, bestPx) ==
    Abs(cost - bestPx * filled) * slippageTolerance_[2]
        > slippageTolerance_[1] * bestPx * filled

BestPx(isSell, ob) ==
    IF isSell /\ ob.bids # <<>> THEN ob.bids[1].price
    ELSE IF ~isSell /\ ob.asks # <<>> THEN ob.asks[1].price
    ELSE 0

\* the two applyChange calls with the amounts exchanged
ApplyLeg_Swapped(w, tx, isSell, baseAsset, quoteAsset, filled, net) ==
    LET r1 == IF isSell THEN ApplyChange(w, tx, baseAsset, -net, 0)
              ELSE ApplyChange(w, tx, quoteAsset, -filled, 0)
        r2 == IF isSell THEN ApplyChange(r1.w, r1.tx, quoteAsset, filled, 0)
              ELSE ApplyChange(r1.w, r1.tx, baseAsset, net, 0)
    IN [w |-> r2.w, tx |-> r2.tx, ok |-> r1.ok /\ r2.ok]

\* the two applyChange calls of a leg; both are made whatever the first returns
ApplyLeg(w, tx, isSell, baseAsset, quoteAsset, filled, net) ==
    LET r1 == IF isSell THEN ApplyChange(w, tx, baseAsset, -filled, 0)
              ELSE ApplyChange(w, tx, quoteAsset, -net, 0)
        r2 == IF isSell THEN ApplyChange(r1.w, r1.tx, quoteAsset, net, 0)
              ELSE ApplyChange(r1.w, r1.tx, baseAsset, filled, 0)
    IN [w |-> r2.w, tx |-> r2.tx, ok |-> r1.ok /\ r2.ok]

NetOf(isSell, cost) ==
    IF isSell THEN FMulQ(cost, <<feePercent_[2] - feePercent_[1], feePercent_[2]>>)
    ELSE FMulQ(cost, <<feePercent_[2] + feePercent_[1], feePercent_[2]>>)

\* Simulator::doLeg, local simulation
DoLegLocal(w, tx, pairName, ob) ==
    LET bq == ParseSymbol(pairName)
        isSell == IsSell(bq.quote)
        freeAmt == GetFreeBalance(w, IF isSell THEN bq.base ELSE bq.quote)
        used == FMulQ(freeAmt, maxFractionPerTrade_)
        bestPx == BestPx(isSell, ob)
        desiredQtyBase == IF isSell THEN used ELSE FDiv(used, bestPx)
        f == Fill(IF isSell THEN ob.bids ELSE ob.asks, desiredQtyBase)
        fail == [w |-> w, tx |-> tx, ok |-> FALSE]
    IN IF bq.quote = UNKNOWN THEN fail
       ELSE IF freeAmt <= 0 THEN fail
       ELSE IF used <= 0 THEN fail
       ELSE IF bestPx <= 0 THEN fail
       ELSE IF ~PassesExchangeFilters(desiredQtyBase, bestPx) THEN fail
       ELSE IF f.filled <= 0 THEN fail
       ELSE IF FillRatioLow(f.filled, desiredQtyBase) THEN fail
       ELSE IF SlipHigh(f.cost, f.filled, bestPx) THEN fail
       ELSE ApplyLeg(w, tx, isSell, bq.base, bq.quote, f.filled,
                     NetOf(isSell, f.cost))

\* IExchangeExecutor::placeMarketOrder as the dry executor answers: a
\* transient failure, or a fill of the drawn part of the quantity at the
\* drawn price
PlaceMarketOrder(quantityBase, outcome) ==
    IF ~outcome.success
    THEN [success |-> FALSE, filledQuantity |-> 0, costOrProceeds |-> 0]
    ELSE LET filled == FMulQ(quantityBase, outcome.part)
         IN [success |-> TRUE, filledQuantity |-> filled,
             costOrProceeds |-> FMul(filled, outcome.price)]

\* Simulator::doLeg in live mode, with doLegLive
DoLegLive(w, tx, pairName, ob, outcome) ==
    LET bq == ParseSymbol(pairName)
        isSell == IsSell(bq.quote)
        freeAmt == GetFreeBalance(w, IF isSell THEN bq.base ELSE bq.quote)
        used == FMulQ(freeAmt, maxFractionPerTrade_)
        desiredQtyBase ==
            IF isSell THEN used
            ELSE FDiv(used, IF ob.asks = <<>> THEN 1000000000 ELSE ob.asks[1].price)
        res == PlaceMarketOrder(desiredQtyBase, outcome)
        fail == [w |-> w, tx |-> tx, ok |-> FALSE]
    IN IF bq.quote = UNKNOWN THEN fail
       ELSE IF freeAmt <= 0 THEN fail
       ELSE IF used <= 0 THEN fail
       ELSE IF desiredQtyBase <= 0 THEN fail
       ELSE IF ~PassesExchangeFilters(desiredQtyBase, ApproximatePrice) THEN fail
       ELSE IF ~res.success \/ res.filledQuantity <= 0 THEN fail
       ELSE IF FillRatioLow(res.filledQuantity, desiredQtyBase) THEN fail
       ELSE ApplyLeg(w, tx, isSell, bq.base, bq.quote, res.filledQuantity,
                     NetOf(isSell, res.costOrProceeds))

\* the quantity doLeg passes to doLegLive and on to placeMarketOrder; 0 when
\* the leg returns before the order
LiveOrderQty(w, pairName, ob) ==
    LET bq == ParseSymbol(pairName)
        isSell == IsSell(bq.quote)
        freeAmt == GetFreeBalance(w, IF isSell THEN bq.base ELSE bq.quote)
        used == FMulQ(freeAmt, maxFractionPerTrade_)
        desiredQtyBase ==
            IF isSell THEN used
            ELSE FDiv(used, IF ob.asks = <<>> THEN 1000000000 ELSE ob.asks[1].price)
    IN IF bq.quote = UNKNOWN \/ freeAmt <= 0 \/ used <= 0 \/ desiredQtyBase <= 0 THEN 0
       ELSE IF ~PassesExchangeFilters(desiredQtyBase, ApproximatePrice) THEN 0
       ELSE desiredQtyBase

\* the fake wallet of estimateTriangleProfitUSDT: USDT, BTC and ETH only
FakeGet(fake, asset) == IF asset \in DOMAIN fake THEN fake[asset] ELSE 0

FakeAdd(fake, asset, delta) ==
    IF asset \in DOMAIN fake THEN [fake EXCEPT ![asset] = FAdd(@, delta)] ELSE fake

\* simulateLegFake: the fake wallet after the leg, ok FALSE when it fails
SimulateLegFake(fake, symbol, ob) ==
    LET bq == ParseSymbol(symbol)
        isSell == IsSell(bq.quote)
        bestPx == BestPx(isSell, ob)
        freeAmt == IF isSell
                   THEN (IF bq.base \in {BTC, ETH} THEN fake[bq.base] ELSE 0)
                   ELSE FakeGet(fake, bq.quote)
        rawSpend == FMulQ(freeAmt, maxFractionPerTrade_)
        desiredQtyBase == IF isSell THEN rawSpend ELSE FDiv(rawSpend, bestPx)
        f == Fill(IF isSell THEN ob.bids ELSE ob.asks, desiredQtyBase)
        fail == [fake |-> fake, ok |-> FALSE]
    IN IF bq.quote = UNKNOWN THEN fail
       ELSE IF bestPx <= 0 THEN fail
       ELSE IF freeAmt <= 0 THEN fail
       ELSE IF ~isSell /\ rawSpend <= 0 THEN fail
       ELSE IF ~PassesExchangeFilters(desiredQtyBase, bestPx) THEN fail
       ELSE IF f.filled <= 0 THEN fail
       ELSE IF FillRatioLow(f.filled, desiredQtyBase) THEN fail
       ELSE IF SlipHigh(f.cost, f.filled, bestPx) THEN fail
       ELSE IF isSell
            THEN [fake |-> FakeAdd(IF bq.base \in {BTC, ETH}
                                   THEN FakeAdd(fake, bq.base, -f.filled) ELSE fake,
                                   bq.quote, NetOf(TRUE, f.cost)),
                  ok |-> TRUE]
            ELSE [fake |-> LET paid == FakeAdd(fake, bq.quote, -NetOf(FALSE, f.cost))
                           IN IF bq.base \in {BTC, ETH}
                              THEN FakeAdd(paid, bq.base, f.filled) ELSE paid,
                  ok |-> TRUE]

TopBid(ob) == IF ob.bids = <<>> THEN 0 ELSE ob.bids[1].price

\* the wallet's free balances valued in USDT at the bids b1 and b2
ValueUSDT(usdt, btc, eth, bBTC, bETH) ==
    FAdd(FAdd(usdt, FMul(btc, bBTC)), FMul(eth, bETH))

\* Simulator::estimateTriangleProfitUSDT; -1 when a leg fails
EstimateValue(fake, ob2, ob3, oldValUSDT) ==
    FSub(FAdd(FAdd(fake[USDT], FMul(fake[BTC], TopBid(ob3))),
              FMul(fake[ETH], TopBid(ob2))),
         oldValUSDT)

EstimateLeg3(l3, ob2, ob3, oldValUSDT) ==
    IF ~l3.ok THEN -1 ELSE EstimateValue(l3.fake, ob2, ob3, oldValUSDT)

EstimateLeg2(l2, tri, ob2, ob3, oldValUSDT) ==
    IF ~l2.ok THEN -1
    ELSE EstimateLeg3(SimulateLegFake(l2.fake, tri.path[3], ob3), ob2, ob3, oldValUSDT)

EstimateLeg1(l1, tri, ob2, ob3, oldValUSDT) ==
    IF ~l1.ok THEN -1
    ELSE EstimateLeg2(SimulateLegFake(l1.fake, tri.path[2], ob2), tri, ob2, ob3,
                      oldValUSDT)

EstimateFrom(fake0, tri, ob1, ob2, ob3) ==
    EstimateLeg1(SimulateLegFake(fake0, tri.path[1], ob1), tri, ob2, ob3,
                 ValueUSDT(fake0[USDT], fake0[BTC], fake0[ETH], TopBid(ob1), TopBid(ob2)))

EstimateTriangleProfitUSDT(w, tri, ob1, ob2, ob3) ==
    EstimateFrom([a \in {USDT, BTC, ETH} |-> GetFreeBalance(w, a)], tri, ob1, ob2, ob3)

\* the simulator after construction and setLiveMode(live)
SimulatorOf(config, live, threads) ==
    /\ cfg = config
    /\ cumulativeProfit_ = 0
    /\ liveMode_ = live
    /\ assetLocks_ = [a \in {BTC, ETH, USDT, BNB, BUSD, USDC} |-> 0]
    /\ mutexHolder = [m \in {"walletMutex_", "throttleMutex_", "logMutex"} |-> 0]
    /\ ex = [p \in threads |-> [pc |-> "idle", ret |-> TRUE]]
    /\ failReason = [p \in threads |-> ""]
    /\ orders = <<>>
    /\ execs = 0

\* the simulator of a configuration file that names no value
SimulatorCtor(live, threads) == SimulatorOf(<<>>, live, threads)

\* OrderBookManager::OrderBookManager and the TriangleScanner before any
\* catalog is loaded
OrderBookManagerCtor ==
    /\ exchangeInfo = <<>>
    /\ adjacencyOrder = <<>>
    /\ bfsTriangles = <<>>
    /\ bfsIndex = <<>>
    /\ bestTriangles_ = <<>>
    /\ mutexes_ = {}
    /\ books_ = <<>>
    /\ lastMsgTime_ = <<>>
    /\ feed = [phase |-> "constructed", streams |-> {}, handled |-> 0, payload |-> <<>>,
               notified |-> <<>>]

\* running_(true), and one thread per chunk of streams once
\* startCombinedWebSocket has spawned them
WorkersCtor(workers) ==
    /\ running_ = TRUE
    /\ threads_ = [w \in workers |->
                     [pc |-> "connect", caller |-> "thread", url |-> w,
                      backoff |-> 0, nextBackoff |-> 0,
                      attempt |-> 0]]
    /\ dtor = "none"

\* ------------------------------------------------- the executors' rate limiter
\* BinanceDryExecutor and BinanceRealExecutor carry the same limiter, line for
\* line.  Time is the steady clock in milliseconds.  requestTokens_ is a
\* double; the model keeps it in units of 1 / TokenMs of a token, so that
\* tokensToAdd = (maxRequestsPerMinute_ / 60.0) * secondsElapsed is exactly
\* the number of milliseconds elapsed and one token is TokenMs units.

\* milliseconds of refill that make up one token
TokenMs == 60000 \div maxRequestsPerMinute_

\* (double)maxRequestsPerMinute_, the full bucket
FullBucket == maxRequestsPerMinute_ * TokenMs

\* std::min
StdMin(a, b) == IF a < b THEN a ELSE b

\* what a sleep_for(100 ms) at least takes
SleepSlice == 100

\* the time a step lets pass: between two calls, or in one sleep_for, which
\* returns after 100 ms or later
Durations == {SleepSlice, 900, TokenMs}

\* requestTokens_ = max, both time points = now, no order counted
ExecutorCtor(t) ==
    [clock |-> t, ctorTime |-> t,
     requestTokens_ |-> FullBucket, lastRefillRequests_ |-> t,
     orderCountInCurrentSec_ |-> 0, currentSecStart_ |-> t,
     pc |-> "idle", isOrder |-> FALSE, slotAt |-> -1,
     calls |-> <<>>, spilled |-> 0, ticks |-> 0]

\* the objects the specification at hand does not exercise, as constructed
AuxCtor ==
    /\ disk = <<>>
    /\ store = <<>>
    /\ pool = <<>>

ExtCtor ==
    /\ OrderBookManagerCtor
    /\ WorkersCtor({})
    /\ throttle = ExecutorCtor(0)
    /\ AuxCtor


\* -------------------------------------------------------- TriangleScanner
\* Times are whole seconds of the steady clock.
triangleCooldownSeconds_ == 10

maxFailsInWindow_ == 3

failWindowSec_ == 60

minProfitThreshold_ == 0

\* the sentinel profit of a blacklisted triangle, and the start of the search
\* for the best one
Sentinel == -999

\* the `estProfitUSDT < 2.0` gate of scanTrianglesForSymbol
MinEstimateUSDT == 2

\* the triangles of the pairs file, as loadTrianglesFromFile reads them; a
\* symbol is the string of its characters
triangles_ ==
    << [base |-> BTC, path |-> <<BTC \o USDT, ETH \o BTC, ETH \o USDT>>],
       [base |-> ETH, path |-> <<ETH \o USDT, BTC \o ETH, BTC \o USDT>>],
       [base |-> BTC, path |-> <<BTC \o USDT, BTC \o USDT, BTC \o USDT>>],
       [base |-> ETH, path |-> <<ETH \o BUSD, ETH \o BUSD, ETH \o BUSD>>] >>

\* loadTrianglesFromFile: symbol -> indices of the triangles whose path has it
RECURSIVE IndicesWith(_, _)
IndicesWith(sym, n) ==
    IF n = 0 THEN <<>>
    ELSE IndicesWith(sym, n - 1)
         \o [k \in 1..Cardinality({l \in 1..Len(triangles_[n].path) :
                                     triangles_[n].path[l] = sym}) |-> n]

symbolToTriangles_ ==
    [sym \in UNION {{t.path[l] : l \in 1..Len(t.path)} :
                    t \in {triangles_[n] : n \in 1..Len(triangles_)}}
       |-> IndicesWith(sym, Len(triangles_))]

\* TriangleScanner::makeTriangleKey: the path joined by "->"
RECURSIVE JoinPath(_, _)
JoinPath(path, n) ==
    IF n = 0 THEN <<>>
    ELSE IF n = 1 THEN path[1]
    ELSE JoinPath(path, n - 1) \o <<"-", ">">> \o path[n]

MakeTriangleKey(tri) == JoinPath(tri.path, Len(tri.path))

\* std::remove_if + erase: the entries of times that pred keeps, in order
RECURSIVE KeepRecent(_, _, _)
KeepRecent(times, t, n) ==
    IF n = 0 THEN <<>>
    ELSE LET rest == KeepRecent(times, t, n - 1)
         IN IF t - times[n] > failWindowSec_ THEN rest ELSE Append(rest, times[n])

\* TriangleScanner::recordFailure, from the lock on: push t, prune against t
RecordFailure(fails, key, t) ==
    LET times == IF key \in DOMAIN fails THEN Append(fails[key], t) ELSE <<t>>
    IN Put(fails, key, KeepRecent(times, t, Len(times)))

\* TriangleScanner::isBlacklisted
IsBlacklisted(fails, tri) ==
    LET key == MakeTriangleKey(tri)
    IN IF key \notin DOMAIN fails THEN FALSE
       ELSE Len(fails[key]) >= maxFailsInWindow_

\* the cooldown test comparing against half the cooldown
OnCooldown_Half(attempts, key, t) ==
    /\ key \in DOMAIN attempts
    /\ 2 * (t - attempts[key]) < triangleCooldownSeconds_

\* the cooldown test of scanTrianglesForSymbol, made at time t
OnCooldown(attempts, key, t) ==
    /\ key \in DOMAIN attempts
    /\ t - attempts[key] < triangleCooldownSeconds_

\* the search for the best profit: the local index, 0 when none beats the
\* sentinel (the code's -1)
RECURSIVE BestLocalIdx(_, _)
BestLocalIdx(profits, n) ==
    IF n = 0 THEN [profit |-> Sentinel, idx |-> 0]
    ELSE LET b == BestLocalIdx(profits, n - 1)
         IN IF profits[n] > b.profit THEN [profit |-> profits[n], idx |-> n] ELSE b

\* a scanning thread outside scanTrianglesForSymbol
Idle == [pc |-> "idle", sym |-> <<>>, profits |-> <<>>, tri |-> 0, fnow |-> 0]

\* the scanner and the clock after construction, with its scanning threads
ScannerCtor(threads) ==
    /\ now = 0
    /\ lastAttemptMap_ = <<>>
    /\ failTimestamps_ = <<>>
    /\ lastProfits_ = [n \in 1..Len(triangles_) |-> Sentinel]
    /\ totalTrades_ = 0
    /\ scan = [th \in threads |-> Idle]
    /\ lastStart = <<>>

\* ------------------------------------------- the wallet specification
\* What the wallet's callers pass: setBalance's <<asset, amount>>,
\* applyChange's <<asset, deltaBalance, deltaLocked>>, and the wallet files
\* found on disk, {"balances": {...}, "locked": {...}}.
SetArgs == {<<BTC, -1>>, <<BTC, 2>>, <<BUSD, 1>>}

ApplyArgs == {<<BTC, -2, 0>>, <<BTC, 0, 1>>, <<BUSD, -2, 0>>, <<BUSD, 1, 0>>}

Files == {[balances |-> [a \in {BTC} |-> 2], locked |-> [a \in {BTC} |-> 1]]}

\* the last wallet call: its name, its transaction (0: none), applyChange's
\* arguments, its return value
Called(op, t, arg, ret) == [op |-> op, tx |-> t, arg |-> arg, ret |-> ret]

TheWallet == Wal(balances_, locked_)

WInit ==
    /\ balances_ = WalletCtor.bal
    /\ locked_ = WalletCtor.lck
    /\ txs = <<>>
    /\ call = Called("none", 0, <<>>, TRUE)
    /\ snap = <<>>
    /\ ScannerCtor({})
    /\ SimulatorCtor(FALSE, {})
    /\ ExtCtor

WSetBalance(asset, amount) ==
    LET w == SetBalance(TheWallet, asset, amount)
    IN /\ balances_' = w.bal
       /\ locked_' = w.lck
       /\ call' = Called("setBalance", 0, <<asset, amount>>, TRUE)
       /\ UNCHANGED <<txs, snap>>
       /\ UNCHANGED <<scannerVars, simVars, extVars>>

WBegin ==
    /\ Len(txs) < MaxTx
    /\ txs' = Append(txs, BeginTransaction)
    /\ call' = Called("begin", Len(txs) + 1, <<>>, TRUE)
    /\ UNCHANGED <<balances_, locked_, snap>>
    /\ UNCHANGED <<scannerVars, simVars, extVars>>

WApply(t, asset, dB, dL) ==
    LET r == ApplyChange(TheWallet, txs[t], asset, dB, dL)
    IN /\ txs[t].active => Len(txs[t].changes) < MaxChanges
       /\ balances_' = r.w.bal
       /\ locked_' = r.w.lck
       /\ txs' = [txs EXCEPT ![t] = r.tx]
       /\ call' = Called("apply", t, <<asset, dB, dL>>, r.ok)
       /\ UNCHANGED snap
       /\ UNCHANGED <<scannerVars, simVars, extVars>>

WCommit(t) ==
    LET r == CommitTransaction(txs[t])
    IN /\ txs' = [txs EXCEPT ![t] = r.tx]
       /\ call' = Called("commit", t, <<>>, r.ok)
       /\ UNCHANGED <<balances_, locked_, snap>>
       /\ UNCHANGED <<scannerVars, simVars, extVars>>

WRollback(t) ==
    LET r == RollbackTransaction(TheWallet, txs[t])
    IN /\ balances_' = r.w.bal
       /\ locked_' = r.w.lck
       /\ txs' = [txs EXCEPT ![t] = r.tx]
       /\ call' = Called("rollback", t, <<>>, TRUE)
       /\ UNCHANGED snap
       /\ UNCHANGED <<scannerVars, simVars, extVars>>

WLoad(j) ==
    LET w == LoadFromFile(TheWallet, j)
    IN /\ balances_' = w.bal
       /\ locked_' = w.lck
       /\ call' = Called("load", 0, <<>>, TRUE)
       /\ UNCHANGED <<txs, snap>>
       /\ UNCHANGED <<scannerVars, simVars, extVars>>

WNext ==
    \/ \E s \in SetArgs : WSetBalance(s[1], s[2])
    \/ WBegin
    \/ \E t \in 1..Len(txs), c \in ApplyArgs : WApply(t, c[1], c[2], c[3])
    \/ \E t \in 1..Len(txs) : WCommit(t)
    \/ \E t \in 1..Len(txs) : WRollback(t)
    \/ \E j \in Files : WLoad(j)

Spec == WInit /\ [][WNext]_vars

\* C1: wallet integrity: every asset has 0 <= locked <= total in every
\* reachable state.  (Violated: setBalance stores any amount unchecked.)
C1_WalletIntegrity ==
    \A a \in DOMAIN balances_ : 0 <= locked_[a] /\ locked_[a] <= balances_[a]

\* C3: apply on an active transaction is all-or-nothing: when the deltas
\* would make total < 0, locked < 0 or locked > total it returns false,
\* records nothing and leaves the wallet, its set of assets included,
\* unchanged; otherwise it returns true, appends exactly one change and
\* changes only that asset, by the deltas.  (Violated: a rejected apply on an
\* unknown asset leaves the asset inserted.)
C3_ApplyAllOrNothing ==
    [][(call'.op = "apply" /\ txs[call'.tx].active) =>
         LET t == call'.tx
             a == call'.arg[1]
             oldB == IF a \in DOMAIN balances_ THEN balances_[a] ELSE 0
             oldL == IF a \in DOMAIN locked_ THEN locked_[a] ELSE 0
             nb == FAdd(oldB, call'.arg[2])
             nl == FAdd(oldL, call'.arg[3])
         IN IF nb < 0 \/ nl < 0 \/ nl > nb
            THEN /\ call'.ret = FALSE
                 /\ txs' = txs
                 /\ balances_' = balances_
                 /\ locked_' = locked_
            ELSE /\ call'.ret = TRUE
                 /\ txs' = [txs EXCEPT ![t].changes = Append(@,
                              [asset |-> a, deltaBalance |-> call'.arg[2],
                               deltaLocked |-> call'.arg[3]])]
                 /\ balances_' = Put(balances_, a, nb)
                 /\ locked_' = Put(locked_, a, nl)]_vars

\* C5: transaction lifecycle: a transaction is active from begin until its
\* first commit or rollback and never becomes active again; commit on an
\* active transaction returns true and leaves the wallet as the applies made
\* it; on an inactive transaction apply and commit return false and rollback
\* does nothing, each leaving the wallet and the transaction unchanged.
C5_TxLifecycle ==
    [][/\ Len(txs') > Len(txs) => txs'[Len(txs')].active
       /\ \A t \in 1..Len(txs) :
            LET mine == call'.tx = t
                same == balances_' = balances_ /\ locked_' = locked_
            IN /\ ~txs[t].active => ~txs'[t].active
               /\ (txs[t].active /\ ~(mine /\ call'.op \in {"commit", "rollback"}))
                     => txs'[t].active
               /\ (mine /\ call'.op \in {"commit", "rollback"}) => ~txs'[t].active
               /\ (mine /\ call'.op = "commit" /\ txs[t].active)
                     => (call'.ret = TRUE /\ same
                         /\ txs'[t].changes = txs[t].changes)
               /\ (mine /\ ~txs[t].active /\ call'.op \in {"apply", "commit", "rollback"})
                     => (same /\ txs' = txs
                         /\ (call'.op \in {"apply", "commit"} => call'.ret = FALSE))]_vars

\* C5 witness: apply was called on a transaction that had recorded a change
\* and been committed or rolled back
C5_Witness ==
    /\ call.op = "apply"
    /\ call.tx = 1
    /\ ~txs[1].active
    /\ Len(txs[1].changes) > 0

\* ---------------------------------------------------------------------
\* round-trip specification: one thread, one transaction at a time, no other
\* wallet operation between beginTransaction and rollbackTransaction

\* balances main.cpp deposits before trading starts
RStartBTC == {0, 1, 5}
RStartUSDT == {0, 3}
RApplyArgs == {<<BTC, 8, 0>>, <<BTC, -1, 0>>, <<BTC, 0, 1>>, <<BUSD, 1, 0>>}

RInit ==
    /\ \E b \in RStartBTC, u \in RStartUSDT :
         LET w == SetBalance(SetBalance(WalletCtor, BTC, b), USDT, u)
         IN balances_ = w.bal /\ locked_ = w.lck
    /\ txs = <<>>
    /\ call = Called("none", 0, <<>>, TRUE)
    /\ snap = <<>>
    /\ ScannerCtor({})
    /\ SimulatorCtor(FALSE, {})
    /\ ExtCtor

\* beginTransaction; snap remembers the wallet at that moment
RBegin ==
    /\ IF txs = <<>> THEN TRUE ELSE ~txs[1].active
    /\ txs' = <<BeginTransaction>>
    /\ snap' = <<TheWallet>>
    /\ call' = Called("begin", 1, <<>>, TRUE)
    /\ UNCHANGED <<balances_, locked_>>
    /\ UNCHANGED <<scannerVars, simVars, extVars>>

RApply(asset, dB, dL) ==
    /\ txs # <<>>
    /\ txs[1].active
    /\ Len(txs[1].changes) < MaxApplies
    /\ LET r == ApplyChange(TheWallet, txs[1], asset, dB, dL)
       IN /\ balances_' = r.w.bal
          /\ locked_' = r.w.lck
          /\ txs' = <<r.tx>>
          /\ call' = Called("apply", 1, <<asset, dB, dL>>, r.ok)
    /\ UNCHANGED snap
    /\ UNCHANGED <<scannerVars, simVars, extVars>>

RRollback ==
    /\ txs # <<>>
    /\ txs[1].active
    /\ LET r == RollbackTransaction(TheWallet, txs[1])
       IN /\ balances_' = r.w.bal
          /\ locked_' = r.w.lck
          /\ txs' = <<r.tx>>
    /\ call' = Called("rollback", 1, <<>>, TRUE)
    /\ UNCHANGED snap
    /\ UNCHANGED <<scannerVars, simVars, extVars>>

RNext ==
    \/ RBegin
    \/ \E c \in RApplyArgs : RApply(c[1], c[2], c[3])
    \/ RRollback

SpecRoundTrip == RInit /\ [][RNext]_vars

\* C4: rollback round-trip: after begin, any applies (accepted or rejected)
\* and rollback with nothing interleaved, the wallet has the same set of
\* assets and the same total and locked values as just before begin.
\* (Violated: an asset inserted by apply stays; the subtraction of a delta
\* does not undo its rounded addition.)
C4_RollbackRoundTrip ==
    (call.op = "rollback" /\ snap # <<>>) => TheWallet = snap[1]

\* the values alone are not restored either: same assets, different amounts
C4_SameAssetsOtherValues ==
    (call.op = "rollback" /\ snap # <<>> /\ DOMAIN balances_ = DOMAIN snap[1].bal)
        => TheWallet = snap[1]

\* ---------------------------------------------------------------------
\* scanner specification: threads of the order book connections run
\* scanTrianglesForSymbol concurrently while the clock advances.  The profit
\* of a triangle, the estimate of the full re-check and the outcome of the
\* trade depend on the order books: they are inputs here.
ScanSymbols == {ETH \o BTC}

\* the connection threads of the scanner specification
ScanThreads == {1, 2}

\* calculateProfit's result, in percent; estimateTriangleProfitUSDT's, in USDT
Profits == {-1, 1}
Estimates == {-1, 1, 2}
\* seconds the clock may jump between two steps
TickSteps == {5, 10}
\* what a profitable trade adds to the wallet's USDT
Gain == 1

ScStart(threads) ==
    /\ balances_ = SetBalance(WalletCtor, USDT, 2).bal
    /\ locked_ = WalletCtor.lck
    /\ txs = <<>>
    /\ call = Called("none", 0, <<>>, TRUE)
    /\ snap = <<>>
    /\ ScannerCtor(threads)
    /\ SimulatorCtor(FALSE, {})
    /\ ExtCtor

ScInit == ScStart(ScanThreads)

AllTris(th) == symbolToTriangles_[scan[th].sym]

\* scanTrianglesForSymbol is entered for a symbol that has triangles
ScanBegin(th, sym) ==
    /\ scan[th].pc = "idle"
    /\ sym \in DOMAIN symbolToTriangles_
    /\ scan' = [scan EXCEPT ![th] = [Idle EXCEPT !.pc = "score", !.sym = sym]]
    /\ UNCHANGED <<walletVars, now, lastAttemptMap_, failTimestamps_,
                   lastProfits_, totalTrades_, lastStart>>
    /\ UNCHANGED <<simVars, extVars>>

\* one turn of the first loop: the sentinel for a blacklisted triangle,
\* calculateProfit's result p otherwise
ScanScore(th, p) ==
    /\ scan[th].pc = "score"
    /\ Len(scan[th].profits) < Len(AllTris(th))
    /\ LET triIdx == AllTris(th)[Len(scan[th].profits) + 1]
           pf == IF IsBlacklisted(failTimestamps_, triangles_[triIdx])
                 THEN Sentinel ELSE p
       IN scan' = [scan EXCEPT ![th].profits = Append(@, pf)]
    /\ UNCHANGED <<walletVars, now, lastAttemptMap_, failTimestamps_,
                   lastProfits_, totalTrades_, lastStart>>
    /\ UNCHANGED <<simVars, extVars>>

\* the best profit, updateTrianglePriority, the threshold and the full
\* re-check with estimate est
ScanSelect(th, est) ==
    /\ scan[th].pc = "score"
    /\ Len(scan[th].profits) = Len(AllTris(th))
    /\ LET profits == scan[th].profits
           best == BestLocalIdx(profits, Len(profits))
       IN /\ lastProfits_' =
               [n \in DOMAIN lastProfits_ |->
                  IF \E i \in 1..Len(profits) : AllTris(th)[i] = n
                  THEN profits[CHOOSE i \in 1..Len(profits) : AllTris(th)[i] = n]
                  ELSE lastProfits_[n]]
          /\ scan' = [scan EXCEPT ![th] =
               IF best.profit > minProfitThreshold_ /\ best.idx >= 1
                  /\ est >= 0 /\ est >= MinEstimateUSDT
               THEN [@ EXCEPT !.pc = "gate", !.tri = AllTris(th)[best.idx]]
               ELSE Idle]
    /\ UNCHANGED <<walletVars, now, lastAttemptMap_, failTimestamps_,
                   totalTrades_, lastStart>>
    /\ UNCHANGED <<simVars, extVars>>

\* the cooldown block, under cooldownMutex_
ScanGate(th) ==
    /\ scan[th].pc = "gate"
    /\ LET key == MakeTriangleKey(triangles_[scan[th].tri])
       IN IF OnCooldown(lastAttemptMap_, key, now)
          THEN /\ scan' = [scan EXCEPT ![th] = Idle]
               /\ call' = Called("cooldown", 0, <<key>>, FALSE)
               /\ UNCHANGED lastAttemptMap_
          ELSE /\ lastAttemptMap_' = Put(lastAttemptMap_, key, now)
               /\ scan' = [scan EXCEPT ![th].pc = "trade"]
               /\ UNCHANGED call
    /\ UNCHANGED <<balances_, locked_, txs, snap, now, failTimestamps_,
                   lastProfits_, totalTrades_, lastStart>>
    /\ UNCHANGED <<simVars, extVars>>

\* simulateTradeDepthWithWallet is entered
ScanExecStart(th) ==
    /\ scan[th].pc = "trade"
    /\ scan' = [scan EXCEPT ![th].pc = "exec"]
    /\ lastStart' = Put(lastStart, MakeTriangleKey(triangles_[scan[th].tri]), now)
    /\ UNCHANGED <<walletVars, now, lastAttemptMap_, failTimestamps_,
                   lastProfits_, totalTrades_>>
    /\ UNCHANGED <<simVars, extVars>>

\* simulateTradeDepthWithWallet returns: a committed gain, or false
ScanExecEnd(th, success) ==
    /\ scan[th].pc = "exec"
    /\ IF success
       THEN /\ totalTrades_ < MaxTrades
            /\ LET r == ApplyChange(TheWallet, BeginTransaction, USDT, Gain, 0)
               IN balances_' = r.w.bal /\ locked_' = r.w.lck
            /\ totalTrades_' = totalTrades_ + 1
            /\ cumulativeProfit_' = FAdd(cumulativeProfit_, Gain)
            /\ scan' = [scan EXCEPT ![th] = Idle]
       ELSE /\ scan' = [scan EXCEPT ![th].pc = "failed"]
            /\ UNCHANGED <<balances_, locked_, totalTrades_, cumulativeProfit_>>
    /\ UNCHANGED <<txs, call, snap, now, lastAttemptMap_, failTimestamps_,
                   lastProfits_, lastStart>>
    /\ UNCHANGED <<cfg, liveMode_, assetLocks_, mutexHolder, ex, failReason, orders, execs,
                   extVars>>

\* recordFailure reads the clock, before it takes failMutex_
ScanFailNow(th) ==
    /\ scan[th].pc = "failed"
    /\ scan' = [scan EXCEPT ![th].pc = "record", ![th].fnow = now]
    /\ UNCHANGED <<walletVars, now, lastAttemptMap_, failTimestamps_,
                   lastProfits_, totalTrades_, lastStart>>
    /\ UNCHANGED <<simVars, extVars>>

\* recordFailure under failMutex_; the scan returns
ScanRecordFailure(th) ==
    /\ scan[th].pc = "record"
    /\ failTimestamps_' = RecordFailure(failTimestamps_,
                              MakeTriangleKey(triangles_[scan[th].tri]), scan[th].fnow)
    /\ scan' = [scan EXCEPT ![th] = Idle]
    /\ UNCHANGED <<walletVars, now, lastAttemptMap_, lastProfits_,
                   totalTrades_, lastStart>>
    /\ UNCHANGED <<simVars, extVars>>

\* the clock advances by d seconds, up to second last
Advance(d, last) ==
    /\ now + d <= last
    /\ now' = now + d
    /\ UNCHANGED <<walletVars, lastAttemptMap_, failTimestamps_, lastProfits_,
                   totalTrades_, scan, lastStart>>
    /\ UNCHANGED <<simVars, extVars>>

Tick(d) == Advance(d, MaxTime)

ScNext ==
    \/ \E th \in ScanThreads, sym \in ScanSymbols : ScanBegin(th, sym)
    \/ \E th \in ScanThreads, p \in Profits : ScanScore(th, p)
    \/ \E th \in ScanThreads, est \in Estimates : ScanSelect(th, est)
    \/ \E th \in ScanThreads : ScanGate(th)
    \/ \E th \in ScanThreads : ScanExecStart(th)
    \/ \E th \in ScanThreads, success \in BOOLEAN : ScanExecEnd(th, success)
    \/ \E th \in ScanThreads : ScanFailNow(th)
    \/ \E th \in ScanThreads : ScanRecordFailure(th)
    \/ \E d \in TickSteps : Tick(d)

SpecScanner == ScInit /\ [][ScNext]_vars

\* the failures of key recorded within the failWindowSec_ before time t
FailsInWindow(key, t) ==
    IF key \notin DOMAIN failTimestamps_ THEN 0
    ELSE Cardinality({i \in 1..Len(failTimestamps_[key]) :
                        t - failTimestamps_[key][i] <= failWindowSec_})

KeyOf(th) == MakeTriangleKey(triangles_[scan[th].tri])

\* C8: cooldown: for every key the times recorded for two successive execute
\* attempts (the clock read under cooldownMutex_ when the scan decides to
\* trade) are at least triangleCooldownSeconds_ apart, whatever the threads
\* do, and only a scan that passes the test records a time and goes on to
\* the trade; a scan that finds the key inside its cooldown returns without
\* entering simulateTradeDepthWithWallet and changes neither the wallet, the
\* trade counter nor the recorded times.
C8_CooldownRecorded ==
    [][/\ \A k \in DOMAIN lastAttemptMap_' :
            (k \notin DOMAIN lastAttemptMap_ \/ lastAttemptMap_'[k] # lastAttemptMap_[k])
              => /\ lastAttemptMap_'[k] = now
                 /\ k \in DOMAIN lastAttemptMap_
                      => lastAttemptMap_'[k] - lastAttemptMap_[k] >= triangleCooldownSeconds_
                 /\ \E th \in DOMAIN scan :
                      /\ scan[th].pc = "gate" /\ scan'[th].pc = "trade"
                      /\ KeyOf(th) = k
       /\ DOMAIN lastAttemptMap_ \subseteq DOMAIN lastAttemptMap_'
       /\ \A th \in DOMAIN scan :
            /\ (scan[th].pc # "trade" /\ scan'[th].pc = "trade")
                 => (scan[th].pc = "gate" /\ lastAttemptMap_'[KeyOf(th)] = now)
            /\ (scan[th].pc # "exec" /\ scan'[th].pc = "exec") => scan[th].pc = "trade"
            /\ (scan[th].pc = "gate" /\ scan'[th].pc = "idle")
                 => /\ OnCooldown(lastAttemptMap_, KeyOf(th), now)
                    /\ UNCHANGED <<balances_, locked_, txs, totalTrades_,
                                   lastAttemptMap_, failTimestamps_, lastStart>>]_vars

\* C8 witness: a scan returned by the cooldown after an execute of the same
\* key had been entered, and a later attempt of that key passed the test
C8_Witness ==
    /\ call.op = "cooldown"
    /\ call.arg[1] \in DOMAIN lastStart
    /\ lastAttemptMap_[call.arg[1]] >= triangleCooldownSeconds_
    /\ call.arg[1] \in DOMAIN failTimestamps_

\* C8 as stated: the times at which two successive executes of a key are
\* entered are at least triangleCooldownSeconds_ apart.  (Violated: the call
\* follows the recorded time after a delay that differs between threads.)
C8_CooldownStarts ==
    [][\A th \in DOMAIN scan :
         (scan[th].pc = "trade" /\ scan'[th].pc = "exec"
          /\ KeyOf(th) \in DOMAIN lastStart)
            => now - lastStart[KeyOf(th)] >= triangleCooldownSeconds_]_vars

\* C9: blacklist safety: when an execute is entered for a key, fewer than
\* maxFailsInWindow_ failures of the key were recorded within the preceding
\* failWindowSec_, under every interleaving.  (Violated: the blacklist is
\* read when the scan starts, not when the trade does.)
C9_BlacklistSafety ==
    [][\A th \in DOMAIN scan :
         (scan[th].pc = "trade" /\ scan'[th].pc = "exec")
            => FailsInWindow(KeyOf(th), now) < maxFailsInWindow_]_vars

\* ---------------------------------------------------------------------
\* blacklist specification: one scanning thread and a clock that runs long
\* enough for recorded failures to leave the window
AgeThreads == {1}

AgeInit == ScStart(AgeThreads)

AgeTick(d) == Advance(d, MaxAgeTime)

AgeNext ==
    \/ \E sym \in ScanSymbols : ScanBegin(1, sym)
    \/ \E p \in Profits : ScanScore(1, p)
    \/ \E est \in Estimates : ScanSelect(1, est)
    \/ ScanGate(1)
    \/ ScanExecStart(1)
    \/ \E success \in BOOLEAN : ScanExecEnd(1, success)
    \/ ScanFailNow(1)
    \/ ScanRecordFailure(1)
    \/ \E d \in TickSteps : AgeTick(d)

SpecBlacklist == AgeInit /\ [][AgeNext]_vars

\* C10: blacklist window: a triangle is blacklisted exactly while at least
\* maxFailsInWindow_ of its recorded failures are no older than
\* failWindowSec_.  (Violated: isBlacklisted counts the entries and never
\* looks at their age; entries are pruned only when a new failure is
\* recorded.)
C10_BlacklistWindow ==
    \A n \in 1..Len(triangles_) :
        IsBlacklisted(failTimestamps_, triangles_[n])
            <=> FailsInWindow(MakeTriangleKey(triangles_[n]), now) >= maxFailsInWindow_

\* ---------------------------------------------------------------------
\* execute specification: threads call simulateTradeDepthWithWallet on the
\* triangles concurrently, in local or in live mode.  The order books and
\* the answers of the exchange are inputs.
ExecThreads == {1, 2}

\* the triangles the execute specification runs: the two over BTC, ETH, USDT
ExecTriangles == {1, 2}

GoodBook == [bids |-> <<[price |-> 10, quantity |-> 8]>>,
             asks |-> <<[price |-> 12, quantity |-> 8]>>]

EmptyBook == [bids |-> <<>>, asks |-> <<>>]

\* books with one side only
BidOnlyBook == [bids |-> <<[price |-> 10, quantity |-> 8]>>, asks |-> <<>>]

AskOnlyBook == [bids |-> <<>>, asks |-> <<[price |-> 12, quantity |-> 8]>>]

\* prices at which the cycle's estimate is neither negative nor worth trading
DearBook == [bids |-> <<[price |-> 56, quantity |-> 8]>>,
             asks |-> <<[price |-> 58, quantity |-> 8]>>]

CheapBook == [bids |-> <<[price |-> 8, quantity |-> 8]>>,
              asks |-> <<[price |-> 10, quantity |-> 8]>>]

\* the fresh books of the three legs
BookTriples == {<<GoodBook, GoodBook, GoodBook>>, <<GoodBook, EmptyBook, GoodBook>>,
                <<EmptyBook, GoodBook, EmptyBook>>, <<GoodBook, BidOnlyBook, EmptyBook>>,
                <<GoodBook, GoodBook, AskOnlyBook>>, <<DearBook, CheapBook, GoodBook>>}

\* placeMarketOrder: a transient failure or a complete fill at price 10
OrderOutcomes == {[success |-> FALSE, part |-> <<1, 1>>, price |-> 10],
                  [success |-> TRUE, part |-> <<1, 1>>, price |-> 10]}

\* <<BTC, ETH, USDT>> deposited before trading starts
StartBalances == {<<4, 4, 1>>}

ExInit ==
    /\ \E d \in StartBalances :
         LET w == SetBalance(SetBalance(SetBalance(WalletCtor, BTC, d[1]),
                                        ETH, d[2]), USDT, d[3])
         IN balances_ = w.bal /\ locked_ = w.lck
    /\ txs = <<>>
    /\ call = Called("none", 0, <<>>, TRUE)
    /\ snap = <<>>
    /\ ScannerCtor({})
    /\ \E live \in BOOLEAN : SimulatorCtor(live, ExecThreads)
    /\ ExtCtor

Returned(ret) == [pc |-> "idle", ret |-> ret]

\* every other thread inside a call has seen the wallet change under it
Disturb(p, changed) ==
    [q \in DOMAIN ex |->
       IF q # p /\ ex[q].pc # "idle" /\ changed
       THEN [ex[q] EXCEPT !.dirty = TRUE] ELSE ex[q]]

Release(p) == [a \in DOMAIN assetLocks_ |-> IF assetLocks_[a] = p THEN 0 ELSE assetLocks_[a]]

\* the WalletTransaction of a thread that has not reached beginTransaction
NoTransaction == [active |-> FALSE, changes |-> <<>>]

\* the mutexes doLeg passes through, in order: getFreeBalance, (live)
\* throttleRequest inside placeMarketOrder, the applyChange calls, logLeg
LegSections ==
    IF liveMode_ THEN <<"walletMutex_", "throttleMutex_", "walletMutex_", "logMutex">>
    ELSE <<"walletMutex_", "walletMutex_", "logMutex">>

\* the section of the applyChange calls
ApplySection == IF liveMode_ THEN 3 ELSE 2

EmptySide(ob) == ob.bids = <<>> \/ ob.asks = <<>>

\* the checks before the locks made last to first
EntryFailReason_Reversed(obs, est) ==
    IF est >= 0 /\ est * minProfitUSDT_[2] < minProfitUSDT_[1] THEN "BELOW_MIN_PROFIT_USDT"
    ELSE IF est < 0 /\ ~EmptySide(obs[1]) /\ ~EmptySide(obs[2]) /\ ~EmptySide(obs[3])
    THEN "UNPROFITABLE_OR_FILL_FAIL"
    ELSE IF EmptySide(obs[3]) THEN "LEG3_EMPTY_OB"
    ELSE IF EmptySide(obs[2]) THEN "LEG2_EMPTY_OB"
    ELSE IF EmptySide(obs[1]) THEN "LEG1_EMPTY_OB"
    ELSE ""

\* *failReason of the checks before the locks, "" when they all pass
EntryFailReason(obs, est) ==
    IF EmptySide(obs[1]) THEN "LEG1_EMPTY_OB"
    ELSE IF EmptySide(obs[2]) THEN "LEG2_EMPTY_OB"
    ELSE IF EmptySide(obs[3]) THEN "LEG3_EMPTY_OB"
    ELSE IF est < 0 THEN "UNPROFITABLE_OR_FILL_FAIL"
    ELSE IF est * minProfitUSDT_[2] < minProfitUSDT_[1] THEN "BELOW_MIN_PROFIT_USDT"
    ELSE ""

\* entry: the fresh books, the starting value and the profitability re-check
Entered(t, obs, est, oldValUSDT) ==
    IF EntryFailReason(obs, est) # ""
    THEN Returned(FALSE)
    ELSE [pc |-> "lock", id |-> execs + 1, tri |-> t, obs |-> obs,
          allAssets |-> AllAssets(triangles_[t]),
          held |-> 0, tx |-> NoTransaction, leg |-> 1, sec |-> 1, inside |-> FALSE,
          realLegs |-> <<>>, rev |-> 0,
          oldValUSDT |-> oldValUSDT, snap |-> TheWallet, dirty |-> FALSE,
          absoluteProfit |-> 0, reg |-> 0]

ExecEnter(p, t, obs) ==
    /\ ex[p].pc = "idle"
    /\ execs < MaxExecs
    /\ mutexHolder["walletMutex_"] = 0
    /\ execs' = execs + 1
    /\ ex' = [ex EXCEPT ![p] =
         Entered(t, obs,
                 EstimateTriangleProfitUSDT(TheWallet, triangles_[t],
                                            obs[1], obs[2], obs[3]),
                 FAdd(FAdd(FMul(GetFreeBalance(TheWallet, BTC), TopBid(obs[1])),
                           FMul(GetFreeBalance(TheWallet, ETH), TopBid(obs[2]))),
                      GetFreeBalance(TheWallet, USDT)))]
    /\ failReason' = [failReason EXCEPT ![p] =
         EntryFailReason(obs, EstimateTriangleProfitUSDT(TheWallet, triangles_[t],
                                                         obs[1], obs[2], obs[3]))]
    /\ call' = Called("execute", p, <<t, obs>>, ex'[p].pc # "idle")
    /\ UNCHANGED <<extVars, balances_, locked_, txs, snap, scannerVars, cfg, cumulativeProfit_, liveMode_, assetLocks_,
                   mutexHolder, orders>>

\* lockGuards.emplace_back(assetLocks_[asset]): blocks while the mutex is
\* held; after the last one beginTransaction
ExecLock(p) ==
    /\ ex[p].pc = "lock"
    /\ LET asset == ex[p].allAssets[ex[p].held + 1]
       IN /\ asset \in DOMAIN assetLocks_ => assetLocks_[asset] = 0
          /\ assetLocks_' = Put(assetLocks_, asset, p)
    /\ ex' = [ex EXCEPT ![p] =
         IF ex[p].held + 1 = Len(ex[p].allAssets)
         THEN [@ EXCEPT !.held = @ + 1, !.pc = "leg", !.tx = BeginTransaction]
         ELSE [@ EXCEPT !.held = @ + 1]]
    /\ UNCHANGED <<extVars, walletVars, scannerVars, cfg, cumulativeProfit_, liveMode_, mutexHolder, failReason,
                   orders, execs>>

\* std::lock_guard on the mutex of the next section of the leg
LeafAcquire(p) ==
    /\ ex[p].pc = "leg"
    /\ ~ex[p].inside
    /\ mutexHolder[LegSections[ex[p].sec]] = 0
    /\ mutexHolder' = [mutexHolder EXCEPT ![LegSections[ex[p].sec]] = p]
    /\ ex' = [ex EXCEPT ![p].inside = TRUE]
    /\ UNCHANGED <<extVars, walletVars, scannerVars, cfg, cumulativeProfit_, liveMode_, assetLocks_, failReason,
                   orders, execs>>

\* the thread after a section without wallet change; after logLeg the leg
\* has returned true
AfterSection(p) ==
    IF ex[p].sec < Len(LegSections)
    THEN [ex[p] EXCEPT !.inside = FALSE, !.sec = @ + 1]
    ELSE IF ex[p].leg < 3
    THEN [ex[p] EXCEPT !.inside = FALSE, !.sec = 1, !.leg = @ + 1]
    ELSE [ex[p] EXCEPT !.inside = FALSE, !.pc = "commit"]

\* the end of a lock_guard scope other than the one of the applyChange calls
LeafRelease(p) ==
    /\ ex[p].pc = "leg"
    /\ ex[p].inside
    /\ ex[p].sec # ApplySection
    /\ mutexHolder' = [mutexHolder EXCEPT ![LegSections[ex[p].sec]] = 0]
    /\ ex' = [ex EXCEPT ![p] = AfterSection(p)]
    /\ UNCHANGED <<extVars, walletVars, scannerVars, cfg, cumulativeProfit_, liveMode_, assetLocks_, failReason,
                   orders, execs>>

\* doLeg of the next leg; outcome is the exchange's answer in live mode
DoLeg(w, tx, pairName, ob, outcome) ==
    IF liveMode_ THEN DoLegLive(w, tx, pairName, ob, outcome)
    ELSE DoLegLocal(w, tx, pairName, ob)

\* realLegs[i] as doLeg fills it in when the live leg returns true
RealLeg(pairName, qty) ==
    [symbol |-> pairName, sideSell |-> IsSell(ParseSymbol(pairName).quote),
     filledQtyBase |-> qty]

\* the successful live legs of the call, the one just returned included
RealLegsAfter(p, ok, qty) ==
    IF liveMode_ /\ ok
    THEN Append(ex[p].realLegs, RealLeg(triangles_[ex[p].tri].path[ex[p].leg], qty))
    ELSE ex[p].realLegs

\* the thread after the applyChange calls of the leg, r the leg's result:
\* after a failure the reversals of the successful live legs come first
AfterLeg(p, r, qty) ==
    [ex[p] EXCEPT !.tx = r.tx,
                  !.inside = FALSE,
                  !.sec = IF r.ok THEN @ + 1 ELSE @,
                  !.realLegs = RealLegsAfter(p, r.ok, qty),
                  !.rev = Len(ex[p].realLegs),
                  !.pc = IF r.ok THEN "leg"
                         ELSE IF liveMode_ /\ ex[p].realLegs # <<>> THEN "reverse"
                         ELSE "rollback"]

LegFailReason(leg) == <<"LEG1_FAIL", "LEG2_FAIL", "LEG3_FAIL">>[leg]

\* an entry of the orders placed: the call, the order and the answer
\* (OrderResult.success and OrderResult.filledQuantity)
Order(id, symbol, sell, qty, reversal, res) ==
    [id |-> id, symbol |-> symbol, sell |-> sell, qty |-> qty,
     reversal |-> reversal, success |-> res.success, filled |-> res.filledQuantity]

LegDone(p, r, qty, outcome) ==
    /\ balances_' = r.w.bal
    /\ locked_' = r.w.lck
    /\ ex' = [Disturb(p, r.w # TheWallet) EXCEPT ![p] = AfterLeg(p, r, qty)]
    /\ failReason' = IF r.ok THEN failReason
                     ELSE [failReason EXCEPT ![p] = LegFailReason(ex[p].leg)]
    /\ orders' = IF liveMode_ /\ qty > 0
                 THEN Append(orders, Order(ex[p].id, triangles_[ex[p].tri].path[ex[p].leg],
                                           IsSell(ParseSymbol(
                                               triangles_[ex[p].tri].path[ex[p].leg]).quote),
                                           qty, FALSE, PlaceMarketOrder(qty, outcome)))
                 ELSE orders

\* the leg's checks and its two applyChange calls, made under walletMutex_
ExecLeg(p, outcome) ==
    /\ ex[p].pc = "leg"
    /\ ex[p].inside
    /\ ex[p].sec = ApplySection
    /\ LegDone(p, DoLeg(TheWallet, ex[p].tx, triangles_[ex[p].tri].path[ex[p].leg],
                        ex[p].obs[ex[p].leg], outcome),
               LiveOrderQty(TheWallet, triangles_[ex[p].tri].path[ex[p].leg],
                            ex[p].obs[ex[p].leg]),
               outcome)
    /\ mutexHolder' = [mutexHolder EXCEPT !["walletMutex_"] = 0]
    /\ UNCHANGED <<extVars, txs, call, snap, scannerVars, cfg, cumulativeProfit_, liveMode_, assetLocks_, execs>>

\* a reversal that repeats the side of the leg
ReverseSide_SameSide(leg) == leg.sideSell

\* OrderSide reverseSide of reverseRealLeg, TRUE for SELL
ReverseSide(leg) == ~leg.sideSell

\* reverseRealLeg of the last successful leg not yet reversed: the opposite
\* market order, whatever it answers
ExecReverse(p, outcome) ==
    /\ ex[p].pc = "reverse"
    /\ mutexHolder["throttleMutex_"] = 0
    /\ orders' = Append(orders, Order(ex[p].id, ex[p].realLegs[ex[p].rev].symbol,
                                      ReverseSide(ex[p].realLegs[ex[p].rev]),
                                      ex[p].realLegs[ex[p].rev].filledQtyBase,
                                      TRUE,
                                      PlaceMarketOrder(ex[p].realLegs[ex[p].rev].filledQtyBase,
                                                       outcome)))
    /\ ex' = [ex EXCEPT ![p].rev = @ - 1,
                        ![p].pc = IF ex[p].rev = 1 THEN "rollback" ELSE "reverse"]
    /\ UNCHANGED <<extVars, walletVars, scannerVars, cfg, cumulativeProfit_, liveMode_, assetLocks_, mutexHolder,
                   failReason, execs>>

RolledBack(p, r) ==
    /\ balances_' = r.w.bal
    /\ locked_' = r.w.lck
    /\ ex' = [Disturb(p, r.w # TheWallet) EXCEPT ![p] = Returned(FALSE)]

\* a leg failed: rollbackTransaction, the locks released, false returned
ExecRollback(p) ==
    /\ ex[p].pc = "rollback"
    /\ mutexHolder["walletMutex_"] = 0
    /\ RolledBack(p, RollbackTransaction(TheWallet, ex[p].tx))
    /\ assetLocks_' = Release(p)
    /\ UNCHANGED <<extVars, txs, call, snap, scannerVars, cfg, cumulativeProfit_, liveMode_, mutexHolder, failReason,
                   orders, execs>>

\* the wallet's free balances valued as after the third leg
NewValUSDT(obs) ==
    FAdd(FAdd(FMul(GetFreeBalance(TheWallet, BTC), TopBid(obs[3])),
              FMul(GetFreeBalance(TheWallet, ETH), TopBid(obs[2]))),
         GetFreeBalance(TheWallet, USDT))

\* three legs done: commitTransaction, the new value and logTrade; with a
\* profit above the cut-off ++totalTrades_ begins with its load, otherwise
\* the locks are released and true is returned
ExecCommit(p) ==
    /\ ex[p].pc = "commit"
    /\ mutexHolder["walletMutex_"] = 0
    /\ CommitTransaction(ex[p].tx).ok
    /\ IF FSub(NewValUSDT(ex[p].obs), ex[p].oldValUSDT) >= 0
       THEN /\ ex' = [ex EXCEPT ![p].pc = "count",
                                ![p].absoluteProfit =
                                    FSub(NewValUSDT(ex[p].obs), ex[p].oldValUSDT),
                                ![p].reg = totalTrades_]
            /\ UNCHANGED assetLocks_
       ELSE /\ ex' = [ex EXCEPT ![p] = Returned(TRUE)]
            /\ assetLocks_' = Release(p)
    /\ UNCHANGED <<extVars, walletVars, scannerVars, cfg, cumulativeProfit_, liveMode_,
                   mutexHolder, failReason, orders, execs>>

\* the store of ++totalTrades_ and the load of cumulativeProfit_ += ...;
\* neither counter is atomic and no mutex is held but the asset locks
ExecCount(p) ==
    /\ ex[p].pc = "count"
    /\ totalTrades_' = ex[p].reg + 1
    /\ ex' = [ex EXCEPT ![p].pc = "sum", ![p].reg = cumulativeProfit_]
    /\ UNCHANGED <<extVars, walletVars, now, lastAttemptMap_, failTimestamps_, lastProfits_,
                   scan, lastStart, cfg, cumulativeProfit_, liveMode_, assetLocks_,
                   mutexHolder, failReason, orders, execs>>

\* the store of cumulativeProfit_ += absoluteProfit; the locks are released
\* and true is returned
ExecSum(p) ==
    /\ ex[p].pc = "sum"
    /\ cumulativeProfit_' = FAdd(ex[p].reg, ex[p].absoluteProfit)
    /\ ex' = [ex EXCEPT ![p] = Returned(TRUE)]
    /\ assetLocks_' = Release(p)
    /\ UNCHANGED <<extVars, walletVars, scannerVars, cfg, liveMode_, mutexHolder, failReason,
                   orders, execs>>

ExNext ==
    \/ \E p \in ExecThreads, t \in ExecTriangles, obs \in BookTriples :
         ExecEnter(p, t, obs)
    \/ \E p \in ExecThreads : ExecLock(p)
    \/ \E p \in ExecThreads : LeafAcquire(p)
    \/ \E p \in ExecThreads : LeafRelease(p)
    \/ \E p \in ExecThreads, outcome \in OrderOutcomes : ExecLeg(p, outcome)
    \/ \E p \in ExecThreads, outcome \in OrderOutcomes : ExecReverse(p, outcome)
    \/ \E p \in ExecThreads : ExecRollback(p)
    \/ \E p \in ExecThreads : ExecCommit(p)
    \/ \E p \in ExecThreads : ExecCount(p)
    \/ \E p \in ExecThreads : ExecSum(p)

SpecExecute == ExInit /\ [][ExNext]_vars

\* the assets the pairs of a cycle name
CycleAssets(tri) ==
    UNION {{ParseSymbol(tri.path[i]).base, ParseSymbol(tri.path[i]).quote} : i \in 1..3}

\* between beginTransaction and the commit or rollback
InTransaction(p) == ex[p].pc \in {"leg", "reverse", "rollback", "commit"}

\* the locked amount of an asset, 0 for an asset the wallet does not hold
LockedOf(w, asset) == IF asset \notin DOMAIN w.lck THEN 0 ELSE w.lck[asset]

\* the wallet's entry of an asset, <<>> when it has none
EntryOf(w, asset) ==
    IF asset \in DOMAIN w.bal THEN <<w.bal[asset], LockedOf(w, asset)>> ELSE <<>>

\* the holder of what the thread needs to go on, 0 when it is free
Needs(p) ==
    IF ex[p].pc = "lock"
    THEN (IF ex[p].allAssets[ex[p].held + 1] \in DOMAIN assetLocks_
          THEN assetLocks_[ex[p].allAssets[ex[p].held + 1]] ELSE 0)
    ELSE IF ex[p].pc = "leg" /\ ~ex[p].inside THEN mutexHolder[LegSections[ex[p].sec]]
    ELSE IF ex[p].pc = "reverse" THEN mutexHolder["throttleMutex_"]
    ELSE IF ex[p].pc \in {"rollback", "commit"} THEN mutexHolder["walletMutex_"]
    ELSE 0

\* a set of threads each waiting for a mutex one of them holds
Deadlock ==
    \E S \in SUBSET ExecThreads :
        S # {} /\ \A p \in S : Needs(p) \in S

\* C2: whenever simulateTradeDepthWithWallet returns false, in local or in
\* live mode, and no other thread changed the wallet during the call, every
\* asset's total and locked amounts (0 for an asset the wallet does not
\* hold) are those of immediately before the call.  (Violated: the rollback
\* subtracts the recorded deltas from the balances, and in doubles
\* (b + d) - d need not be b.)
C2_TransactionAtomicity ==
    [][/\ \A p \in ExecThreads :
            (ex[p].pc = "rollback" /\ ex'[p].pc = "idle" /\ ~ex[p].dirty)
                => \A a \in (DOMAIN balances_') \cup (DOMAIN ex[p].snap.bal) :
                      /\ GetTotalBalance(Wal(balances_', locked_'), a)
                            = GetTotalBalance(ex[p].snap, a)
                      /\ LockedOf(Wal(balances_', locked_'), a) = LockedOf(ex[p].snap, a)
       /\ (execs' # execs /\ \A q \in ExecThreads : ex'[q].pc = ex[q].pc)
            => (balances_' = balances_ /\ locked_' = locked_)
      ]_vars

\* C6: a call acquires the locks of the assets of its cycle, each at most
\* once and in strictly increasing lexicographic order of the asset names;
\* when its transaction begins it holds them all; and the threads, which
\* take walletMutex_, throttleMutex_ and logMutex while they hold asset
\* locks, never reach a state where each thread of some set waits for a
\* mutex held inside the set.
C6_LockOrderFreedom ==
    /\ [](~Deadlock)
    /\ [](\A p \in ExecThreads :
            InTransaction(p) =>
                \A a \in CycleAssets(triangles_[ex[p].tri]) :
                    a \in DOMAIN assetLocks_ /\ assetLocks_[a] = p)
    /\ [][\A p \in ExecThreads : \A a \in DOMAIN assetLocks_' :
            (assetLocks_'[a] = p /\ (a \in DOMAIN assetLocks_ => assetLocks_[a] # p))
                => /\ a \in CycleAssets(triangles_[ex[p].tri])
                   /\ a \in DOMAIN assetLocks_ /\ assetLocks_[a] = 0
                   /\ \A b \in DOMAIN assetLocks_ : assetLocks_[b] = p => StrLess(b, a)
         ]_vars

\* one thread inside a lock_guard scope of a leg with its three asset locks
\* held, the other waiting for one of those asset locks
C6_Witness ==
    \E p, q \in ExecThreads :
        /\ p # q
        /\ ex[p].pc = "leg" /\ ex[p].inside /\ ex[p].held = 3
        /\ ex[q].pc = "lock" /\ Needs(q) = p

\* C7: two calls whose cycles share an asset are never both between
\* beginTransaction and the commit or rollback; and every change a call
\* applies to the wallet is to an asset whose lock the call holds.
C7_MutualExclusion ==
    /\ [](\A p, q \in ExecThreads :
            (p # q /\ InTransaction(p) /\ InTransaction(q))
                => CycleAssets(triangles_[ex[p].tri])
                       \cap CycleAssets(triangles_[ex[q].tri]) = {})
    /\ [][/\ \A p \in ExecThreads :
               (InTransaction(p) /\ ex'[p].pc # "idle")
                   => \A i \in 1..Len(ex'[p].tx.changes) :
                         i > Len(ex[p].tx.changes)
                            => /\ ex'[p].tx.changes[i].asset \in DOMAIN assetLocks_
                               /\ assetLocks_[ex'[p].tx.changes[i].asset] = p
          /\ \A a \in (DOMAIN balances_) \cup (DOMAIN balances_') :
               EntryOf(Wal(balances_', locked_'), a) # EntryOf(TheWallet, a)
                   => \E p \in ExecThreads :
                         /\ a \in DOMAIN assetLocks_ /\ assetLocks_[a] = p
                         /\ ex[p].pc \in {"leg", "rollback"}
                         /\ (ex'[p].pc # ex[p].pc \/ ex'[p].sec # ex[p].sec)
         ]_vars

\* one call has applied a leg while the other, whose cycle shares its
\* assets, waits at the asset locks
C7_Witness ==
    \E p, q \in ExecThreads :
        /\ p # q
        /\ InTransaction(p) /\ ex[p].tx.changes # <<>>
        /\ ex[q].pc = "lock" /\ ex[q].held = 0
        /\ CycleAssets(triangles_[ex[p].tri]) \cap CycleAssets(triangles_[ex[q].tri]) # {}


\* the step in which thread p enters simulateTradeDepthWithWallet
EntersExecute(p) == ex[p].pc = "idle" /\ execs' = execs + 1 /\ call'.tx = p

\* the estimate the entry recomputes from the fresh books of the call
FreshEstimate ==
    EstimateTriangleProfitUSDT(TheWallet, triangles_[call'.arg[1]],
                               call'.arg[2][1], call'.arg[2][2], call'.arg[2][3])

\* the first leg whose fresh book has an empty side, 0 when there is none
FirstEmptyLeg(obs) ==
    IF obs[1].bids = <<>> \/ obs[1].asks = <<>> THEN 1
    ELSE IF obs[2].bids = <<>> \/ obs[2].asks = <<>> THEN 2
    ELSE IF obs[3].bids = <<>> \/ obs[3].asks = <<>> THEN 3
    ELSE 0

PreTradeReasons ==
    {"LEG1_EMPTY_OB", "LEG2_EMPTY_OB", "LEG3_EMPTY_OB",
     "UNPROFITABLE_OR_FILL_FAIL", "BELOW_MIN_PROFIT_USDT"}

\* the reason the claim gives for the books and the estimate of a call
PreTradeReason(obs, est) ==
    IF FirstEmptyLeg(obs) # 0
    THEN <<"LEG1_EMPTY_OB", "LEG2_EMPTY_OB", "LEG3_EMPTY_OB">>[FirstEmptyLeg(obs)]
    ELSE IF est < 0 THEN "UNPROFITABLE_OR_FILL_FAIL"
    ELSE IF est * 2 < 1 THEN "BELOW_MIN_PROFIT_USDT"
    ELSE ""

\* C11: the entry of execute checks the fresh books of legs 1, 2, 3 in this
\* order and fails with LEG{i}_EMPTY_OB for the first leg with an empty side,
\* then the recomputed estimate (UNPROFITABLE_OR_FILL_FAIL when negative,
\* else BELOW_MIN_PROFIT_USDT when below min_profit_usdt); on each of these
\* failures it returns false with no asset lock taken, no wallet transaction
\* opened, no order placed and the wallet untouched.
C11_PreTradeRejection ==
    [][\A p \in ExecThreads :
         EntersExecute(p) =>
           /\ failReason'[p] = PreTradeReason(call'.arg[2], FreshEstimate)
           /\ failReason'[p] \in PreTradeReasons =>
                /\ ex'[p] = Returned(FALSE)
                /\ ~call'.ret
                /\ assetLocks_' = assetLocks_
                /\ \A a \in DOMAIN assetLocks_ : assetLocks_'[a] # p
                /\ mutexHolder' = mutexHolder
                /\ orders' = orders
                /\ txs' = txs
                /\ balances_' = balances_
                /\ locked_' = locked_
           /\ failReason'[p] \notin PreTradeReasons =>
                ex'[p].pc = "lock" /\ ex'[p].held = 0 /\ ~ex'[p].tx.active]_vars

\* both threads were turned away at the entry, one by the empty book of
\* leg 1 although leg 3's is empty too, one by an estimate below the minimum
C11_Witness ==
    /\ failReason[1] = "LEG1_EMPTY_OB"
    /\ failReason[2] = "BELOW_MIN_PROFIT_USDT"
    /\ call.op = "execute" /\ ~call.ret
    /\ \A p \in ExecThreads : ex[p] = Returned(FALSE)
    /\ orders = <<>>

\* the orders one call of execute placed for its legs, and its reversals
LegOrders(id) == SelectSeq(orders, LAMBDA o : o.id = id /\ ~o.reversal)

RevOrders(id) == SelectSeq(orders, LAMBDA o : o.id = id /\ o.reversal)

OrdersOf(id) == SelectSeq(orders, LAMBDA o : o.id = id)

\* thread p is past a failed leg in live mode
LiveFailed(p) == liveMode_ /\ ex[p].pc \in {"reverse", "rollback"}

\* the k-th reversal of the call of p reverses leg (failed leg - k): same
\* symbol as the successful order of that leg, the opposite side
ReversesLeg(p, k) ==
    /\ RevOrders(ex[p].id)[k].symbol = triangles_[ex[p].tri].path[ex[p].leg - k]
    /\ LegOrders(ex[p].id)[ex[p].leg - k].symbol = RevOrders(ex[p].id)[k].symbol
    /\ LegOrders(ex[p].id)[ex[p].leg - k].success
    /\ RevOrders(ex[p].id)[k].sell = ~LegOrders(ex[p].id)[ex[p].leg - k].sell

LiveFailureState(p) ==
    /\ failReason[p] = <<"LEG1_FAIL", "LEG2_FAIL", "LEG3_FAIL">>[ex[p].leg]
    /\ Len(RevOrders(ex[p].id)) <= ex[p].leg - 1
    /\ ex[p].pc = "rollback" => Len(RevOrders(ex[p].id)) = ex[p].leg - 1
    /\ ex[p].pc = "reverse" => Len(RevOrders(ex[p].id)) < ex[p].leg - 1
    /\ \A k \in 1..Len(RevOrders(ex[p].id)) : ReversesLeg(p, k)
    /\ OrdersOf(ex[p].id) = LegOrders(ex[p].id) \o RevOrders(ex[p].id)

\* a step of p after the failed leg: one more reversal whatever the order's
\* answer, or after the last one the rollback and the return of false
LiveFailureStep(p) ==
    /\ ex[p].pc = "reverse" =>
         /\ ex'[p].pc \in {"reverse", "rollback"}
         /\ Len(orders') = Len(orders) + 1
         /\ orders'[Len(orders')].id = ex[p].id /\ orders'[Len(orders')].reversal
         /\ balances_' = balances_ /\ locked_' = locked_
    /\ ex[p].pc = "rollback" =>
         /\ ex'[p] = Returned(FALSE)
         /\ orders' = orders
         /\ TheWallet' = RollbackTransaction(TheWallet, ex[p].tx).w
         /\ \A a \in DOMAIN assetLocks_ : assetLocks_'[a] # p

\* C12: when leg i of a live execute fails the fail reason is LEG{i}_FAIL,
\* one opposite-side market order is placed for each of the legs i-1 down to
\* 1 in this order and for no other leg, whether or not the earlier
\* reversals succeeded, and then the transaction is rolled back and false
\* returned.
C12_LiveFailureHandling ==
    /\ [](\A p \in ExecThreads : LiveFailed(p) => LiveFailureState(p))
    /\ [][\A p \in ExecThreads :
            (LiveFailed(p) /\ (ex'[p].pc # ex[p].pc \/ ex'[p].rev # ex[p].rev))
              => LiveFailureStep(p)]_vars

\* leg 3 of a live call failed, the reversal of leg 2 was refused by the
\* exchange, the reversal of leg 1 was placed all the same and the call is
\* about to roll back
C12_Witness ==
    \E p \in ExecThreads :
      /\ LiveFailed(p) /\ ex[p].pc = "rollback" /\ ex[p].leg = 3
      /\ failReason[p] = "LEG3_FAIL"
      /\ Len(RevOrders(ex[p].id)) = 2
      /\ ~RevOrders(ex[p].id)[1].success
      /\ RevOrders(ex[p].id)[1].symbol = triangles_[ex[p].tri].path[2]
      /\ RevOrders(ex[p].id)[2].symbol = triangles_[ex[p].tri].path[1]

\* ------------------------------------------------------ catalog and books
\* static const int TOP_TRIANGLE_LIMIT
TOP_TRIANGLE_LIMIT == 50

\* static bool USE_INVERSE_EDGES
USE_INVERSE_EDGES == TRUE

FWD == <<"_", "F", "W", "D">>

INV == <<"_", "I", "N", "V">>

\* "@depth20@100ms"
DepthSuffix == <<"@", "d", "e", "p", "t", "h", "2", "0", "@", "1", "0", "0", "m", "s">>

LowerCase == <<"a", "b", "c", "d", "e", "f", "g", "h", "i", "j", "k", "l", "m",
               "n", "o", "p", "q", "r", "s", "t", "u", "v", "w", "x", "y", "z">>

\* ::tolower and ::toupper of one character
ToLowerChar(c) ==
    IF \E i \in 1..Len(Alphabet) : Alphabet[i] = c
    THEN LowerCase[CHOOSE i \in 1..Len(Alphabet) : Alphabet[i] = c] ELSE c

ToUpperChar(c) ==
    IF \E i \in 1..Len(LowerCase) : LowerCase[i] = c
    THEN Alphabet[CHOOSE i \in 1..Len(LowerCase) : LowerCase[i] = c] ELSE c

ToLower(str) == [i \in 1..Len(str) |-> ToLowerChar(str[i])]

ToUpper(str) == [i \in 1..Len(str) |-> ToUpperChar(str[i])]

\* one element of the "symbols" array of /exchangeInfo
Product(base, quote, status) ==
    [symbol |-> base \o quote, baseAsset |-> base, quoteAsset |-> quote, status |-> status]

\* the product lists the exchange may answer with
ExchangeInfos ==
    {<<Product(BTC, USDT, "TRADING"), Product(ETH, BTC, "TRADING"),
       Product(ETH, USDT, "TRADING")>>,
     <<Product(ETH, USDT, "TRADING"), Product(BNB, USDT, "BREAK"),
       Product(BTC, USDT, "TRADING"), Product(ETH, BTC, "TRADING")>>}

\* the directed edges in the order the loop over the products pushes them
RECURSIVE EdgeList(_)
EdgeList(info) ==
    IF info = <<>> THEN <<>>
    ELSE (IF Head(info).status # "TRADING" THEN <<>>
          ELSE <<[from |-> Head(info).baseAsset, to |-> Head(info).quoteAsset,
                  name |-> Head(info).symbol \o FWD]>>
               \o (IF USE_INVERSE_EDGES
                   THEN <<[from |-> Head(info).quoteAsset, to |-> Head(info).baseAsset,
                           name |-> Head(info).symbol \o INV]>>
                   ELSE <<>>))
         \o EdgeList(Tail(info))

\* adjacency[a]
Adjacency(info, a) == SelectSeq(EdgeList(info), LAMBDA e : e.from = a)

\* the keys of the adjacency map
AdjacencyKeys(info) == {EdgeList(info)[i].from : i \in 1..Len(EdgeList(info))}

\* the orders in which an unordered_map of these keys may be iterated
IterationOrders(keys) ==
    {o \in [1..Cardinality(keys) -> keys] : \A i, j \in DOMAIN o : o[i] = o[j] => i = j}

\* the innermost loop of buildTrianglesBFS: the edges from C back to A
RECURSIVE ClosingEdges(_, _, _, _)
ClosingEdges(edgesC, A, symAB, symBC) ==
    IF edgesC = <<>> THEN <<>>
    ELSE (IF Head(edgesC).to = A
          THEN <<[base |-> A, path |-> <<symAB, symBC, Head(edgesC).name>>]>>
          ELSE <<>>)
         \o ClosingEdges(Tail(edgesC), A, symAB, symBC)

RECURSIVE SecondEdges(_, _, _, _)
SecondEdges(info, edgesB, A, symAB) ==
    IF edgesB = <<>> THEN <<>>
    ELSE ClosingEdges(Adjacency(info, Head(edgesB).to), A, symAB, Head(edgesB).name)
         \o SecondEdges(info, Tail(edgesB), A, symAB)

RECURSIVE FirstEdges(_, _, _)
FirstEdges(info, edgesA, A) ==
    IF edgesA = <<>> THEN <<>>
    ELSE SecondEdges(info, Adjacency(info, Head(edgesA).to), A, Head(edgesA).name)
         \o FirstEdges(info, Tail(edgesA), A)

\* TriangleScanner::buildTrianglesBFS: triangles_ in the order pushed
RECURSIVE BuildTrianglesBFS(_, _)
BuildTrianglesBFS(info, order) ==
    IF order = <<>> THEN <<>>
    ELSE FirstEdges(info, Adjacency(info, Head(order)), Head(order))
         \o BuildTrianglesBFS(info, Tail(order))

\* symbolToTriangles_[name]: the indices pushed for name, in order
RECURSIVE PushedFor(_, _, _)
PushedFor(tris, name, idx) ==
    IF idx > Len(tris) THEN <<>>
    ELSE [k \in 1..Cardinality({k \in 1..3 : tris[idx].path[k] = name}) |-> idx]
         \o PushedFor(tris, name, idx + 1)

PathNames(tris) == {tris[i].path[k] : i \in 1..Len(tris), k \in 1..3}

\* an index that lists a triangle under its first edge alone
SymbolIndex_FirstEdge(tris) ==
    [name \in PathNames(tris) |->
       SelectSeq([i \in 1..Len(tris) |-> i], LAMBDA i : tris[i].path[1] = name)]

SymbolIndex(tris) == [name \in PathNames(tris) |-> PushedFor(tris, name, 1)]

\* loadTrianglesFromBinanceExchangeInfo: the product list fetched, the
\* cycles built, lastProfits_ resized, every path name registered
LoadTrianglesFromBinanceExchangeInfo(info, order) ==
    /\ feed.phase = "constructed"
    /\ exchangeInfo' = info
    /\ adjacencyOrder' = order
    /\ bfsTriangles' = BuildTrianglesBFS(info, order)
    /\ bfsIndex' = SymbolIndex(bfsTriangles')
    /\ lastProfits_' = [i \in 1..Len(bfsTriangles') |-> Sentinel]
    /\ mutexes_' = mutexes_ \cup PathNames(bfsTriangles')
    /\ feed' = [feed EXCEPT !.phase = "loaded"]
    /\ UNCHANGED <<connVars, throttle, auxVars, walletVars, simVars, now, lastAttemptMap_, failTimestamps_,
                   totalTrades_, scan, lastStart, bestTriangles_, books_, lastMsgTime_>>

\* startCombinedWebSocket: one stream per key of mutexes_
StreamOf(symbol) == ToLower(symbol) \o DepthSuffix

StartCombinedWebSocket ==
    /\ feed.phase = "loaded"
    /\ feed' = [feed EXCEPT !.phase = "streaming",
                            !.streams = {StreamOf(s) : s \in mutexes_}]
    /\ UNCHANGED <<connVars, throttle, auxVars, walletVars, scannerVars, simVars, exchangeInfo, adjacencyOrder,
                   bfsTriangles, bfsIndex, bestTriangles_, mutexes_, books_,
                   lastMsgTime_>>

\* the position of the first '@' of the stream name, 0 when there is none
AtPos(streamName) ==
    IF \E i \in 1..Len(streamName) : streamName[i] = "@"
    THEN CHOOSE i \in 1..Len(streamName) :
           streamName[i] = "@" /\ \A j \in 1..(i - 1) : streamName[j] # "@"
    ELSE 0

\* "btcusdt@depth20@100ms" => "BTCUSDT"
SymbolOfStream(streamName) == ToUpper(SubSeq(streamName, 1, AtPos(streamName) - 1))

\* the levels of the message with qty > 0.0, in the order received
KeepPositive(levels) == SelectSeq(levels, LAMBDA l : l.quantity > 0)

\* the comparators of the two std::sort calls
BidsFirst(a, b) == a.price > b.price

AsksFirst(a, b) == a.price < b.price

\* the outcomes of std::sort: the arrangements of the levels in which no
\* level compares before an earlier one
SortedBy(levels, bidSide) ==
    {[i \in 1..Len(levels) |-> levels[p[i]]] :
       p \in {q \in [1..Len(levels) -> 1..Len(levels)] :
                /\ \A i, j \in 1..Len(levels) : q[i] = q[j] => i = j
                /\ \A i, j \in 1..Len(levels) :
                     i < j => ~(IF bidSide THEN BidsFirst(levels[q[j]], levels[q[i]])
                                ELSE AsksFirst(levels[q[j]], levels[q[i]]))}}

\* the "_INV" / "_FWD" suffix of a path name stripped
IsReversed(sym) == Len(sym) >= 4 /\ SubSeq(sym, Len(sym) - 3, Len(sym)) = INV

RawSym(sym) ==
    IF Len(sym) >= 4 /\ SubSeq(sym, Len(sym) - 3, Len(sym)) \in {INV, FWD}
    THEN SubSeq(sym, 1, Len(sym) - 4) ELSE sym

\* OrderBookManager::getOrderBook
GetOrderBook(books, symbol) ==
    IF symbol \in DOMAIN books THEN books[symbol] ELSE [bids |-> <<>>, asks |-> <<>>]

\* one leg of calculateProfit: the amount after it, -999 when the book fails
ProfitLeg(books, sym, amount) ==
    IF amount = Sentinel THEN Sentinel
    ELSE IF GetOrderBook(books, RawSym(sym)).bids = <<>>
            \/ GetOrderBook(books, RawSym(sym)).asks = <<>> THEN Sentinel
    ELSE IF GetOrderBook(books, RawSym(sym)).bids[1].price <= 0
            \/ GetOrderBook(books, RawSym(sym)).asks[1].price <= 0 THEN Sentinel
    ELSE IF ~IsReversed(sym)
    THEN FMulQ(FMul(amount, GetOrderBook(books, RawSym(sym)).bids[1].price), <<999, 1000>>)
    ELSE FMulQ(FDiv(amount, GetOrderBook(books, RawSym(sym)).asks[1].price), <<999, 1000>>)

\* TriangleScanner::calculateProfit, in percent
CalculateProfit(books, tri) ==
    IF ProfitLeg(books, tri.path[3],
                 ProfitLeg(books, tri.path[2], ProfitLeg(books, tri.path[1], 1))) = Sentinel
    THEN Sentinel
    ELSE FMul(FSub(ProfitLeg(books, tri.path[3],
                             ProfitLeg(books, tri.path[2],
                                       ProfitLeg(books, tri.path[1], 1))), 1), 100)

\* the triangles scanTrianglesForSymbol scores for symbol: the first
\* TOP_TRIANGLE_LIMIT of its index entry, none when the symbol has no entry
ScannedFor(symbol) ==
    IF symbol \notin DOMAIN bfsIndex THEN <<>>
    ELSE SubSeq(bfsIndex[symbol], 1,
                IF Len(bfsIndex[symbol]) < TOP_TRIANGLE_LIMIT
                THEN Len(bfsIndex[symbol]) ELSE TOP_TRIANGLE_LIMIT)

\* profits[i] of the scan, from the books as stored
ProfitsFor(books, allTris) ==
    [i \in 1..Len(allTris) |->
       IF IsBlacklisted(failTimestamps_, bfsTriangles[allTris[i]]) THEN Sentinel
       ELSE CalculateProfit(books, bfsTriangles[allTris[i]])]

\* the updateTrianglePriority calls of one scan
RECURSIVE UpdatedProfits(_, _, _, _)
UpdatedProfits(last, allTris, profits, n) ==
    IF n = 0 THEN last
    ELSE [UpdatedProfits(last, allTris, profits, n - 1) EXCEPT ![allTris[n]] = profits[n]]

Pushed(allTris, profits) ==
    [i \in 1..Len(allTris) |-> [profit |-> profits[i], triIdx |-> allTris[i]]]

\* the estimate scanTrianglesForSymbol makes of its best triangle, from the
\* books stored under the path names; Sentinel when none beats the threshold
ScanEstimate(books, allTris, profits) ==
    IF BestLocalIdx(profits, Len(profits)).idx = 0
       \/ ~(BestLocalIdx(profits, Len(profits)).profit > minProfitThreshold_)
    THEN Sentinel
    ELSE EstimateTriangleProfitUSDT(
           TheWallet, bfsTriangles[allTris[BestLocalIdx(profits, Len(profits)).idx]],
           GetOrderBook(books, bfsTriangles[allTris[BestLocalIdx(profits,
                                                   Len(profits)).idx]].path[1]),
           GetOrderBook(books, bfsTriangles[allTris[BestLocalIdx(profits,
                                                   Len(profits)).idx]].path[2]),
           GetOrderBook(books, bfsTriangles[allTris[BestLocalIdx(profits,
                                                   Len(profits)).idx]].path[3]))

\* scanTrianglesForSymbol as onCombinedMessage calls it
ScanTrianglesForSymbol(payload, symbol, books, allTris, profits) ==
    /\ lastProfits_' = UpdatedProfits(lastProfits_, allTris, profits, Len(allTris))
    /\ bestTriangles_' = bestTriangles_ \o Pushed(allTris, profits)
    /\ feed' = [feed EXCEPT
         !.handled = @ + 1,
         !.payload = payload,
         !.notified = Append(@, [symbol |-> symbol, scored |-> allTris,
                                 estimate |-> ScanEstimate(books, allTris, profits)])]

\* the message stored: the book replaced, the time recorded, the scanner told
StoreBook(payload, symbol, t, newBids, newAsks) ==
    /\ mutexes_' = mutexes_ \cup {symbol}
    /\ books_' = Put(books_, symbol, [bids |-> newBids, asks |-> newAsks])
    /\ now' = t
    /\ lastMsgTime_' = Put(lastMsgTime_, symbol, t)
    /\ ScanTrianglesForSymbol(payload, symbol, books_', ScannedFor(symbol),
                              ProfitsFor(books_', ScannedFor(symbol)))

\* OrderBookManager::onCombinedMessage
OnCombinedMessage(payload, t) ==
    /\ feed.phase = "streaming"
    /\ feed.handled < MaxMsgs
    /\ \/ /\ AtPos(payload.stream) = 0
          /\ feed' = [feed EXCEPT !.handled = @ + 1, !.payload = payload]
          /\ UNCHANGED <<now, lastProfits_, bestTriangles_, mutexes_, books_,
                         lastMsgTime_>>
       \/ /\ AtPos(payload.stream) # 0
          /\ \E newBids \in SortedBy(KeepPositive(payload.bids), TRUE),
                newAsks \in SortedBy(KeepPositive(payload.asks), FALSE) :
               StoreBook(payload, SymbolOfStream(payload.stream), t, newBids, newAsks)
    /\ UNCHANGED <<connVars, throttle, auxVars, walletVars, simVars, lastAttemptMap_, failTimestamps_, totalTrades_,
                   scan, lastStart, exchangeInfo, adjacencyOrder, bfsTriangles, bfsIndex>>

Level(px, qty) == [price |-> px, quantity |-> qty]

\* the "data" a depth message may carry: sorted, unsorted, with an empty
\* level and an empty side, with one price twice
MessageData ==
    {[bids |-> <<Level(2, 1)>>, asks |-> <<Level(2, 1)>>],
     [bids |-> <<Level(1, 1), Level(2, 1)>>, asks |-> <<Level(2, 1), Level(1, 1)>>],
     [bids |-> <<Level(2, 0), Level(1, 2)>>, asks |-> <<>>],
     [bids |-> <<Level(2, 1), Level(2, 2)>>, asks |-> <<Level(1, 1)>>]}

\* streams a message may name: a subscribed one, the symbol of a catalog
\* product, a symbol of no product, a name without '@'
MessageStreams ==
    {StreamOf(BTC \o USDT \o FWD), StreamOf(BTC \o USDT), StreamOf(BNB \o BUSD),
     ToLower(BTC \o USDT)}

MkInit ==
    /\ balances_ = [a \in {BTC, ETH, USDT} |-> 4]
    /\ locked_ = [a \in {BTC, ETH, USDT} |-> 0]
    /\ txs = <<>>
    /\ call = Called("none", 0, <<>>, TRUE)
    /\ snap = <<>>
    /\ ScannerCtor({})
    /\ SimulatorCtor(FALSE, {})
    /\ ExtCtor

MkNext ==
    \/ \E info \in ExchangeInfos :
         \E order \in IterationOrders(AdjacencyKeys(info)) :
           LoadTrianglesFromBinanceExchangeInfo(info, order)
    \/ StartCombinedWebSocket
    \/ \E stream \in MessageStreams, data \in MessageData :
         OnCombinedMessage([stream |-> stream, bids |-> data.bids, asks |-> data.asks],
                           now + 1)

SpecMarket == MkInit /\ [][MkNext]_vars


\* the edge a path name of the catalog stands for: its product and direction
ProductOf(sym) ==
    CHOOSE i \in 1..Len(exchangeInfo) : exchangeInfo[i].symbol = RawSym(sym)

EdgeSide(sym) == IF IsReversed(sym) THEN "BUY" ELSE "SELL"

\* what a leg did with the base asset of its product
SideTaken(ok, before, after) ==
    IF ~ok THEN "NONE"
    ELSE IF after < before THEN "SELL"
    ELSE IF after > before THEN "BUY"
    ELSE "NONE"

FreeOf(w) == [a \in {USDT, BTC, ETH} |-> GetFreeBalance(w, a)]

\* the leg of the estimate, of the local execute and of the live execute
\* (its order filled in full) on the wallet of the state and a two-sided book
EstimateSide(sym, base) ==
    SideTaken(SimulateLegFake(FreeOf(TheWallet), sym, GoodBook).ok,
              FreeOf(TheWallet)[base],
              SimulateLegFake(FreeOf(TheWallet), sym, GoodBook).fake[base])

LocalSide(sym, base) ==
    SideTaken(DoLegLocal(TheWallet, BeginTransaction, sym, GoodBook).ok,
              GetFreeBalance(TheWallet, base),
              GetFreeBalance(DoLegLocal(TheWallet, BeginTransaction, sym, GoodBook).w, base))

LiveSide(sym, base) ==
    SideTaken(DoLegLive(TheWallet, BeginTransaction, sym, GoodBook,
                        [success |-> TRUE, part |-> <<1, 1>>, price |-> 10]).ok,
              GetFreeBalance(TheWallet, base),
              GetFreeBalance(DoLegLive(TheWallet, BeginTransaction, sym, GoodBook,
                                       [success |-> TRUE, part |-> <<1, 1>>,
                                        price |-> 10]).w, base))

\* C13: every leg of a cycle of the catalog is executed as a sell of the base
\* asset when the cycle's edge at that position is FORWARD and as a buy of
\* the base asset when it is INVERSE, by the estimate, by the local execute
\* and by the live execute alike.
C13_LegDirection ==
    \A i \in 1..Len(bfsTriangles), k \in 1..3 :
      /\ EstimateSide(bfsTriangles[i].path[k],
                      exchangeInfo[ProductOf(bfsTriangles[i].path[k])].baseAsset)
           = EdgeSide(bfsTriangles[i].path[k])
      /\ LocalSide(bfsTriangles[i].path[k],
                   exchangeInfo[ProductOf(bfsTriangles[i].path[k])].baseAsset)
           = EdgeSide(bfsTriangles[i].path[k])
      /\ LiveSide(bfsTriangles[i].path[k],
                  exchangeInfo[ProductOf(bfsTriangles[i].path[k])].baseAsset)
           = EdgeSide(bfsTriangles[i].path[k])

\* the step that handles one depth message
HandlesMessage == feed.phase = "streaming" /\ feed'.handled = feed.handled + 1

\* the cycles of the catalog that reference symbol, in catalog order
RECURSIVE Referencing(_, _)
Referencing(symbol, n) ==
    IF n = 0 THEN <<>>
    ELSE Referencing(symbol, n - 1)
         \o (IF \E k \in 1..3 : RawSym(bfsTriangles[n].path[k]) = symbol
             THEN <<n>> ELSE <<>>)

FirstN(seq, n) == SubSeq(seq, 1, IF Len(seq) < n THEN Len(seq) ELSE n)

\* the entries the step pushed on the best-cycle queue
NewlyPushed == SubSeq(bestTriangles_', Len(bestTriangles_) + 1, Len(bestTriangles_'))

\* C14: once the catalog is built from the product list, a book update for
\* symbol S rescores each of the first TOP_TRIANGLE_LIMIT cycles that
\* reference S in either direction: its last profit is the profit computed
\* from the books after the update and an entry for it is pushed on the
\* best-cycle queue.
C14_IncrementalRescan ==
    [][(HandlesMessage /\ AtPos(feed'.payload.stream) # 0
          /\ \E i \in 1..Len(exchangeInfo) :
               /\ exchangeInfo[i].status = "TRADING"
               /\ exchangeInfo[i].symbol = SymbolOfStream(feed'.payload.stream))
       => \A n \in 1..Len(FirstN(Referencing(SymbolOfStream(feed'.payload.stream),
                                            Len(bfsTriangles)), TOP_TRIANGLE_LIMIT)) :
            /\ \E j \in 1..Len(NewlyPushed) :
                 NewlyPushed[j].triIdx =
                   Referencing(SymbolOfStream(feed'.payload.stream), Len(bfsTriangles))[n]
            /\ lastProfits_'[Referencing(SymbolOfStream(feed'.payload.stream),
                                         Len(bfsTriangles))[n]]
                 = CalculateProfit(books_',
                     bfsTriangles[Referencing(SymbolOfStream(feed'.payload.stream),
                                              Len(bfsTriangles))[n]])]_vars

\* one side of a stored book: only positive quantities, prices in order,
\* no price twice
WellFormedSide(levels, bidSide) ==
    /\ \A i \in 1..Len(levels) : levels[i].quantity > 0
    /\ \A i, j \in 1..Len(levels) :
         i < j => IF bidSide THEN levels[i].price >= levels[j].price
                  ELSE levels[i].price <= levels[j].price
    /\ \A i, j \in 1..Len(levels) : i # j => levels[i].price # levels[j].price

\* C19: after any sequence of depth messages every stored book has only
\* levels with quantity > 0, bids sorted by price descending, asks sorted by
\* price ascending and no two levels of a side at the same price, and the
\* book a message stores holds levels of that message only.
C19_BookWellFormed ==
    /\ [](\A s \in DOMAIN books_ :
            /\ WellFormedSide(books_[s].bids, TRUE)
            /\ WellFormedSide(books_[s].asks, FALSE))
    /\ [][(HandlesMessage /\ AtPos(feed'.payload.stream) # 0) =>
            /\ \A i \in 1..Len(books_'[SymbolOfStream(feed'.payload.stream)].bids) :
                 \E k \in 1..Len(feed'.payload.bids) :
                   feed'.payload.bids[k]
                     = books_'[SymbolOfStream(feed'.payload.stream)].bids[i]
            /\ \A i \in 1..Len(books_'[SymbolOfStream(feed'.payload.stream)].asks) :
                 \E k \in 1..Len(feed'.payload.asks) :
                   feed'.payload.asks[k]
                     = books_'[SymbolOfStream(feed'.payload.stream)].asks[i]]_vars

\* the symbols subscribed: the keys registered when the streams were opened
Subscribed(symbol) == StreamOf(symbol) \in feed.streams

\* C20: a depth message naming a symbol that is not subscribed changes no
\* order book and no last-update time, creates no store entry and does not
\* notify the scanner.
C20_SymbolAcceptance ==
    [][(HandlesMessage /\ AtPos(feed'.payload.stream) # 0
          /\ ~Subscribed(SymbolOfStream(feed'.payload.stream)))
       => /\ books_' = books_
          /\ lastMsgTime_' = lastMsgTime_
          /\ mutexes_' = mutexes_
          /\ feed'.notified = feed.notified]_vars

\* ------------------------------------------------------ stream connections
\* the threads startCombinedWebSocket spawned, one per chunk URL
Workers == {1, 2}

\* the backoff every caller of reconnectCombined passes
InitialBackoff == 2

\* the bound in std::min(backoff*2, 300)
BackoffCap == 300

CnInit ==
    /\ balances_ = [a \in {BTC, ETH, USDT} |-> 0]
    /\ locked_ = [a \in {BTC, ETH, USDT} |-> 0]
    /\ txs = <<>>
    /\ call = Called("none", 0, <<>>, TRUE)
    /\ snap = <<>>
    /\ ScannerCtor({})
    /\ SimulatorCtor(FALSE, {})
    /\ OrderBookManagerCtor
    /\ WorkersCtor(Workers)
    /\ throttle = ExecutorCtor(0)
    /\ AuxCtor

\* reconnectCombined(url, backoff) entered: the thread sleeps for backoff
\* seconds
ReconnectCombined(w, caller, url, backoff) ==
    [threads_[w] EXCEPT !.pc = "sleeping", !.caller = caller, !.url = url,
                        !.backoff = backoff, !.attempt = @ + 1]

\* connectCombinedWebSocket: get_connection fails, reconnectCombined(fullUrl, 2)
ConnectError(w) ==
    /\ threads_[w].pc = "connect"
    /\ threads_[w].attempt < MaxAttempts
    /\ threads_' = [threads_ EXCEPT ![w] = ReconnectCombined(w, "connect",
                                                             threads_[w].url,
                                                             InitialBackoff)]
    /\ UNCHANGED <<walletVars, scannerVars, simVars, marketVars, throttle, auxVars, running_, dtor>>

\* connectCombinedWebSocket: client.connect(con); client.run() entered
Connect(w) ==
    /\ threads_[w].pc = "connect"
    /\ threads_' = [threads_ EXCEPT ![w].pc = "connecting"]
    /\ UNCHANGED <<walletVars, scannerVars, simVars, marketVars, throttle, auxVars, running_, dtor>>

\* the connection is established; run() keeps blocking
Open(w) ==
    /\ threads_[w].pc = "connecting"
    /\ threads_' = [threads_ EXCEPT ![w].pc = "open", ![w].attempt = 0]
    /\ UNCHANGED <<walletVars, scannerVars, simVars, marketVars, throttle, auxVars, running_, dtor>>

\* the fail handler, inside run(): client.stop(); reconnectCombined(fullUrl, 2)
Fail(w) ==
    /\ threads_[w].pc = "connecting"
    /\ threads_[w].attempt < MaxAttempts
    /\ threads_' = [threads_ EXCEPT ![w] = ReconnectCombined(w, "fail", threads_[w].url,
                                                             InitialBackoff)]
    /\ UNCHANGED <<walletVars, scannerVars, simVars, marketVars, throttle, auxVars, running_, dtor>>

\* the close handler, inside run(): client.stop(); reconnectCombined(fullUrl, 2)
Close(w) ==
    /\ threads_[w].pc = "open"
    /\ threads_' = [threads_ EXCEPT ![w] = ReconnectCombined(w, "close", threads_[w].url,
                                                             InitialBackoff)]
    /\ UNCHANGED <<walletVars, scannerVars, simVars, marketVars, throttle, auxVars, running_, dtor>>

\* reconnectCombined after the sleep: nextBackoff computed, then
\* connectCombinedWebSocket(url) called
Wake(w) ==
    /\ threads_[w].pc = "sleeping"
    /\ threads_' = [threads_ EXCEPT
         ![w].pc = "connect",
         ![w].nextBackoff = IF threads_[w].backoff * 2 < BackoffCap
                            THEN threads_[w].backoff * 2 ELSE BackoffCap]
    /\ UNCHANGED <<walletVars, scannerVars, simVars, marketVars, throttle, auxVars, running_, dtor>>

\* ~OrderBookManager: running_ = false, then join on the threads
Destructor ==
    /\ dtor = "none"
    /\ running_' = FALSE
    /\ dtor' = "joining"
    /\ UNCHANGED <<walletVars, scannerVars, simVars, marketVars, throttle, auxVars, threads_>>

CnNext ==
    \/ \E w \in Workers : ConnectError(w)
    \/ \E w \in Workers : Connect(w)
    \/ \E w \in Workers : Open(w)
    \/ \E w \in Workers : Fail(w)
    \/ \E w \in Workers : Close(w)
    \/ \E w \in Workers : Wake(w)
    \/ Destructor

SpecConnect == CnInit /\ [][CnNext]_vars

\* every step a thread can take is taken in the end, the exchange's answers
\* included
SpecConnectFair ==
    /\ CnInit
    /\ [][CnNext]_vars
    /\ \A w \in Workers :
         /\ WF_vars(Connect(w))
         /\ WF_vars(Wake(w))
         /\ WF_vars(Open(w))
         /\ WF_vars(Close(w))

\* min(initial_backoff * 2^(n-1), cap)
ExpectedBackoff(n) ==
    IF InitialBackoff * Pow2(n - 1) < BackoffCap
    THEN InitialBackoff * Pow2(n - 1) ELSE BackoffCap

\* C15: the sleep before the n-th consecutive reconnection attempt of a
\* connection is min(initial_backoff * 2^(n-1), 300) seconds, and the
\* attempt reopens the connection's chunk URL.
C15_ReconnectBackoff ==
    \A w \in Workers :
      threads_[w].pc = "sleeping" =>
        /\ threads_[w].backoff = ExpectedBackoff(threads_[w].attempt)
        /\ threads_[w].url = w

\* C16: once the running flag is false every worker thread exits in the end,
\* so the destructor's join returns.
C16_Cancellation ==
    [](~running_ => <>(\A w \in Workers : threads_[w].pc = "exited"))



\* ------------------------------------------------- the executors' rate limiter
\* a refill that credits the elapsed time and keeps the time of the last
\* refill, so that the same time is credited again
RefillRequestTokens_KeepsTime(s) ==
    IF s.clock - s.lastRefillRequests_ >= TokenMs
    THEN [s EXCEPT !.requestTokens_ =
                       StdMin(FullBucket, @ + (s.clock - s.lastRefillRequests_)),
                   !.spilled = @ + (s.requestTokens_
                                    + (s.clock - s.lastRefillRequests_))
                                 - StdMin(FullBucket, s.requestTokens_
                                          + (s.clock - s.lastRefillRequests_))]
    ELSE s

\* refillRequestTokens: once the elapsed time is worth a token, add it, cap
\* the bucket and restart the measurement.  spilled records what the cap cut.
RefillRequestTokens(s) ==
    IF s.clock - s.lastRefillRequests_ >= TokenMs
    THEN [s EXCEPT !.requestTokens_ =
                       StdMin(FullBucket, @ + (s.clock - s.lastRefillRequests_)),
                   !.lastRefillRequests_ = s.clock,
                   !.spilled = @ + (s.requestTokens_
                                    + (s.clock - s.lastRefillRequests_))
                                 - StdMin(FullBucket, s.requestTokens_
                                          + (s.clock - s.lastRefillRequests_))]
    ELSE s

\* a reset that does not look at the age of the window
ResetOrderCounterIfNewSecond_Always(s) ==
    [s EXCEPT !.currentSecStart_ = s.clock, !.orderCountInCurrentSec_ = 0]

\* resetOrderCounterIfNewSecond
ResetOrderCounterIfNewSecond(s) ==
    IF s.clock - s.currentSecStart_ >= 1000
    THEN [s EXCEPT !.currentSecStart_ = s.clock, !.orderCountInCurrentSec_ = 0]
    ELSE s

\* one call of throttleRequest as it returned: when its order slot was
\* taken and in which window (-1 for a non-order call), when it returned
Admitted(s) ==
    [isOrder |-> s.isOrder, slotAt |-> s.slotAt,
     window |-> IF s.isOrder THEN s.currentSecStart_ ELSE -1,
     at |-> s.clock]

\* while(requestTokens_ < 1.0) ... ; requestTokens_ -= 1.0; return
ConsumeToken(s) ==
    IF s.requestTokens_ < TokenMs
    THEN [s EXCEPT !.pc = "tokenWait"]
    ELSE [s EXCEPT !.requestTokens_ = @ - TokenMs,
                   !.pc = "idle",
                   !.calls = Append(@, Admitted(s))]

\* while(orderCountInCurrentSec_ >= maxOrdersPerSec_) ... ;
\* orderCountInCurrentSec_++, then the token part
TakeOrderSlot(s) ==
    IF s.orderCountInCurrentSec_ >= maxOrdersPerSec_
    THEN [s EXCEPT !.pc = "orderWait"]
    ELSE ConsumeToken([s EXCEPT !.orderCountInCurrentSec_ = @ + 1,
                                !.slotAt = s.clock])

\* throttleRequest up to its return or its first sleep.  throttleMutex_ is
\* held from the first line to the return, sleeps included, so one call at
\* a time is inside.
Entering(s, isOrder) ==
    IF isOrder
    THEN TakeOrderSlot(ResetOrderCounterIfNewSecond(
             [RefillRequestTokens(s) EXCEPT !.isOrder = TRUE, !.slotAt = -1]))
    ELSE ConsumeToken(
             [RefillRequestTokens(s) EXCEPT !.isOrder = FALSE, !.slotAt = -1])

Slept(s, d) == [s EXCEPT !.clock = @ + d, !.ticks = @ + 1]

ThrottleRequest(isOrder) ==
    /\ throttle.pc = "idle"
    /\ Len(throttle.calls) < MaxCalls
    /\ throttle' = Entering(throttle, isOrder)
    /\ UNCHANGED <<walletVars, scannerVars, simVars, marketVars, connVars, auxVars>>

\* sleep_for(100 ms); resetOrderCounterIfNewSecond(); and round the loop
SleepForOrderSlot(d) ==
    /\ throttle.pc = "orderWait"
    /\ throttle.ticks < MaxTicks
    /\ throttle' = TakeOrderSlot(ResetOrderCounterIfNewSecond(Slept(throttle, d)))
    /\ UNCHANGED <<walletVars, scannerVars, simVars, marketVars, connVars, auxVars>>

\* sleep_for(100 ms); refillRequestTokens(); and round the loop
SleepForToken(d) ==
    /\ throttle.pc = "tokenWait"
    /\ throttle.ticks < MaxTicks
    /\ throttle' = ConsumeToken(RefillRequestTokens(Slept(throttle, d)))
    /\ UNCHANGED <<walletVars, scannerVars, simVars, marketVars, connVars, auxVars>>

\* time passing between two calls
BetweenCalls(d) ==
    /\ throttle.pc = "idle"
    /\ throttle.ticks < MaxTicks
    /\ throttle' = Slept(throttle, d)
    /\ UNCHANGED <<walletVars, scannerVars, simVars, marketVars, connVars, auxVars>>

ThInit ==
    /\ balances_ = [a \in {BTC, ETH, USDT} |-> 0]
    /\ locked_ = [a \in {BTC, ETH, USDT} |-> 0]
    /\ txs = <<>>
    /\ call = Called("none", 0, <<>>, TRUE)
    /\ snap = <<>>
    /\ ScannerCtor({})
    /\ SimulatorCtor(FALSE, {})
    /\ OrderBookManagerCtor
    /\ WorkersCtor({})
    /\ throttle = ExecutorCtor(0)
    /\ AuxCtor

ThNext ==
    \/ \E isOrder \in BOOLEAN : ThrottleRequest(isOrder)
    \/ \E d \in Durations : SleepForOrderSlot(d)
    \/ \E d \in Durations : SleepForToken(d)
    \/ \E d \in Durations : BetweenCalls(d)

SpecThrottle == ThInit /\ [][ThNext]_vars

\* the calls that took an order slot
OrderSlots == {i \in 1..Len(throttle.calls) : throttle.calls[i].isOrder}

\* the order calls whose slot was taken in the 1000 ms from time a on
SlotsWithin(a) ==
    {i \in OrderSlots : /\ a <= throttle.calls[i].slotAt
                        /\ throttle.calls[i].slotAt < a + 1000}

\* the order calls that returned from throttleRequest in the 1000 ms from
\* time a on
AdmittedWithin(a) ==
    {i \in OrderSlots : /\ a <= throttle.calls[i].at
                        /\ throttle.calls[i].at < a + 1000}

\* the order calls counted in the window that began at time w
SlotsOfWindow(w) == {i \in OrderSlots : throttle.calls[i].window = w}

\* C17 as the specification has it: of the order calls the limiter admitted,
\* at most maxOrdersPerSec_ fall within any interval of 1000 ms.
C17_OrderRateCeiling ==
    \A i \in OrderSlots :
      Cardinality(AdmittedWithin(throttle.calls[i].at)) <= maxOrdersPerSec_

\* C17, amended: the limiter counts in fixed windows.  At most maxOrdersPerSec_
\* order calls are counted between two consecutive resets of the counter,
\* each within 1000 ms of the reset that began its window, two resets are at
\* least 1000 ms apart, and so at most 2 * maxOrdersPerSec_ order calls are
\* counted, and at most as many admitted, within any interval of 1000 ms.
C17_WindowCeiling ==
    /\ throttle.orderCountInCurrentSec_ <= maxOrdersPerSec_
    /\ \A i \in OrderSlots :
         /\ Cardinality(SlotsOfWindow(throttle.calls[i].window)) <= maxOrdersPerSec_
         /\ throttle.calls[i].window <= throttle.calls[i].slotAt
         /\ throttle.calls[i].slotAt < throttle.calls[i].window + 1000
         /\ Cardinality(SlotsWithin(throttle.calls[i].slotAt))
              <= 2 * maxOrdersPerSec_
         /\ Cardinality(AdmittedWithin(throttle.calls[i].at))
              <= 2 * maxOrdersPerSec_
         /\ \A j \in OrderSlots :
              throttle.calls[j].window > throttle.calls[i].window =>
                throttle.calls[j].window >= throttle.calls[i].window + 1000

\* a full window just before a reset and a full window just after it, all
\* admitted within 1000 ms
C17_Witness ==
    \E i \in OrderSlots :
      /\ Cardinality(AdmittedWithin(throttle.calls[i].at)) = 2 * maxOrdersPerSec_
      /\ Cardinality(SlotsOfWindow(throttle.calls[i].window)) = maxOrdersPerSec_

\* C18: the bucket holds between 0 and maxRequestsPerMinute_ tokens; every
\* call that returned took exactly one token, which was there; tokens come
\* from the refill alone, one per TokenMs of elapsed time: what the bucket
\* holds, what the calls took and what the cap cut add up to the full bucket
\* of the constructor plus the time credited so far, the time not yet
\* credited being the time since the last refill; a caller waits only while
\* the bucket holds less than one token.
C18_TokenBucket ==
    /\ 0 <= throttle.requestTokens_
    /\ throttle.requestTokens_ <= FullBucket
    /\ throttle.requestTokens_ + TokenMs * Len(throttle.calls) + throttle.spilled
         = FullBucket + (throttle.lastRefillRequests_ - throttle.ctorTime)
    /\ throttle.lastRefillRequests_ <= throttle.clock
    /\ throttle.pc = "tokenWait" => throttle.requestTokens_ < TokenMs
    /\ throttle.spilled > 0 => throttle.lastRefillRequests_ > throttle.ctorTime

\* a call waited for its token with the bucket empty and then got it from a
\* refill
C18_Witness ==
    /\ throttle.pc = "idle"
    /\ Len(throttle.calls) > maxRequestsPerMinute_
    /\ throttle.lastRefillRequests_ > throttle.ctorTime
    /\ throttle.requestTokens_ < TokenMs

\* ------------------------------------------------------------- setBalance
\* C27: setBalance(asset, amount) with amount < 0 fails and leaves the wallet
\* unchanged; with amount >= 0 it sets the asset's total to amount, keeps the
\* asset's locked amount (0 for a new asset) and changes no other asset.
C27_SetBalance ==
    [][(call'.op = "setBalance" /\ call' # call) =>
         IF call'.arg[2] < 0
         THEN /\ ~call'.ret
              /\ balances_' = balances_
              /\ locked_' = locked_
         ELSE /\ balances_' = Put(balances_, call'.arg[1], call'.arg[2])
              /\ locked_' = IF call'.arg[1] \in DOMAIN locked_ THEN locked_
                            ELSE Put(locked_, call'.arg[1], 0)]_vars

\* ------------------------------------------------------ wallet persistence
\* nlohmann::json writes a double as the shortest decimal text that reads
\* back as the same double, with ".0" after a whole number; operator>> reads
\* a number as the double nearest to the decimal text.
DigitChars == <<"0", "1", "2", "3", "4", "5", "6", "7", "8", "9">>

RECURSIVE DecimalDigits(_)
DecimalDigits(n) ==
    IF n < 10 THEN <<DigitChars[n + 1]>>
    ELSE Append(DecimalDigits(n \div 10), DigitChars[(n % 10) + 1])

\* the text j.dump(4) writes for the double x
DumpFloat(x) ==
    (IF x < 0 THEN <<"-">> ELSE <<>>) \o DecimalDigits(Abs(x)) \o <<".", "0">>

DigitValue(c) == (CHOOSE i \in 1..10 : DigitChars[i] = c) - 1

\* the digits of text from position i on, up to the first character that is
\* no digit, read as a number continuing acc; and how many they are
RECURSIVE ReadDigits(_, _, _, _)
ReadDigits(text, i, acc, n) ==
    IF i > Len(text) \/ text[i] \notin {DigitChars[k] : k \in 1..10}
    THEN [value |-> acc, count |-> n]
    ELSE ReadDigits(text, i + 1, 10 * acc + DigitValue(text[i]), n + 1)

RECURSIVE Pow10(_)
Pow10(n) == IF n <= 0 THEN 1 ELSE 10 * Pow10(n - 1)

\* the double it.value().get<double>() yields for a number text
\* [-]digits[.digits]
ParseFloat(text) ==
    LET neg == text # <<>> /\ text[1] = "-"
        from == IF neg THEN 2 ELSE 1
        whole == ReadDigits(text, from, 0, 0)
        dot == from + whole.count
        frac == IF dot <= Len(text) /\ text[dot] = "."
                THEN ReadDigits(text, dot + 1, 0, 0)
                ELSE [value |-> 0, count |-> 0]
        num == whole.value * Pow10(frac.count) + frac.value
    IN RoundRat(IF neg THEN -num ELSE num, Pow10(frac.count))

\* ofs << j.dump(4): the text of the file, its numbers as written
DumpJson(j) ==
    [balances |-> [a \in DOMAIN j.balances |-> DumpFloat(j.balances[a])],
     locked |-> [a \in DOMAIN j.locked |-> DumpFloat(j.locked[a])]]

\* ifs >> j
ParseJson(text) ==
    [balances |-> [a \in DOMAIN text.balances |-> ParseFloat(text.balances[a])],
     locked |-> [a \in DOMAIN text.locked |-> ParseFloat(text.locked[a])]]

\* the one file name of the persistence specification
WalletFile == "wallet.json"

\* setBalance and applyChange calls that build the wallet to be saved
PersistSets == {<<BTC, -1>>, <<BTC, 5>>, <<USDT, 12>>, <<BUSD, 3>>}

PersistApplies == {<<BTC, 0, 1>>, <<USDC, 7, 2>>}

PInit ==
    /\ balances_ = WalletCtor.bal
    /\ locked_ = WalletCtor.lck
    /\ txs = <<BeginTransaction>>
    /\ call = Called("none", 0, <<>>, TRUE)
    /\ snap = <<>>
    /\ ScannerCtor({})
    /\ SimulatorCtor(FALSE, {})
    /\ ExtCtor

\* the wallet being filled: no file written yet
PSetBalance(asset, amount) ==
    /\ disk = <<>>
    /\ WSetBalance(asset, amount)

PApply(asset, dB, dL) ==
    /\ disk = <<>>
    /\ Len(txs[1].changes) < Cardinality(PersistApplies)
    /\ LET r == ApplyChange(TheWallet, txs[1], asset, dB, dL)
       IN /\ balances_' = r.w.bal
          /\ locked_' = r.w.lck
          /\ txs' = <<r.tx>>
          /\ call' = Called("apply", 1, <<asset, dB, dL>>, r.ok)
    /\ UNCHANGED snap
    /\ UNCHANGED <<scannerVars, simVars, extVars>>

\* saveToFile; snap remembers the wallet saved
Save ==
    /\ call.op # "save"
    /\ disk' = Put(disk, WalletFile, DumpJson(SaveToFile(TheWallet)))
    /\ snap' = <<TheWallet>>
    /\ call' = Called("save", 0, <<WalletFile>>, TRUE)
    /\ UNCHANGED <<balances_, locked_, txs>>
    /\ UNCHANGED <<scannerVars, simVars, marketVars, connVars, throttle, store, pool>>

\* loadFromFile, right after the save, by the wallet that saved (fresh =
\* FALSE) or by a wallet just constructed
Load(fresh) ==
    /\ call.op = "save"
    /\ LET w == LoadFromFile(IF fresh THEN WalletCtor ELSE TheWallet,
                             ParseJson(disk[WalletFile]))
       IN /\ balances_' = w.bal
          /\ locked_' = w.lck
    /\ call' = Called("load", 0, <<WalletFile, fresh>>, TRUE)
    /\ UNCHANGED <<txs, snap>>
    /\ UNCHANGED <<scannerVars, simVars, marketVars, connVars, throttle, disk, store, pool>>

\* a wallet changed after its save, to be saved again
Touch(asset, amount) ==
    /\ call.op = "load"
    /\ WSetBalance(asset, amount)

PNext ==
    \/ \E s \in PersistSets : PSetBalance(s[1], s[2])
    \/ \E c \in PersistApplies : PApply(c[1], c[2], c[3])
    \/ Save
    \/ \E fresh \in BOOLEAN : Load(fresh)
    \/ \E s \in PersistSets : Touch(s[1], s[2])

SpecPersist == PInit /\ [][PNext]_vars

IsStaleEnter(symbol, maxStaleMs) ==
    /\ feed.phase = "streaming"
    /\ call.op # "isStale, waiting"
    /\ call' = Called("isStale, waiting", 0, <<symbol, maxStaleMs, now>>, FALSE)
    /\ UNCHANGED <<balances_, locked_, txs, snap>>
    /\ UNCHANGED <<scannerVars, simVars, extVars>>

\* a comparison that calls an update exactly maxStaleMs old stale
IsStale_AtLeast(times, symbol, maxStaleMs, t) ==
    IF symbol \notin DOMAIN times THEN TRUE
    ELSE t - times[symbol] >= maxStaleMs

\* find(symbol): true when there is no entry, else elapsed > maxStaleMs
IsStale(times, symbol, maxStaleMs, t) ==
    IF symbol \notin DOMAIN times THEN TRUE
    ELSE t - times[symbol] > maxStaleMs

IsStaleReturn ==
    /\ call.op = "isStale, waiting"
    /\ call' = [call EXCEPT !.op = "isStale",
                            !.ret = IsStale(lastMsgTime_, call.arg[1], call.arg[2],
                                            call.arg[3])]
    /\ UNCHANGED <<balances_, locked_, txs, snap>>
    /\ UNCHANGED <<scannerVars, simVars, extVars>>

\* the last millisecond of the staleness specification's clock
MaxStaleTime == 6

\* the products the exchange lists in the staleness specification
StaleInfo == <<Product(BTC, USDT, "TRADING")>>

StaleSymbols == {BTC \o USDT, ETH \o USDT}

StaleLimits == {0, 2, 5}

StaleTick(d) == Advance(d, MaxStaleTime)

StNext ==
    \/ \E order \in IterationOrders(AdjacencyKeys(StaleInfo)) :
         LoadTrianglesFromBinanceExchangeInfo(StaleInfo, order)
    \/ StartCombinedWebSocket
    \/ \E symbol \in {BTC \o USDT} :
         OnCombinedMessage([stream |-> StreamOf(symbol),
                            bids |-> <<Level(2, 1)>>, asks |-> <<Level(2, 1)>>], now)
    \/ \E d \in {1, 3} : StaleTick(d)
    \/ \E symbol \in StaleSymbols, k \in StaleLimits : IsStaleEnter(symbol, k)
    \/ IsStaleReturn

SpecStale == MkInit /\ [][StNext]_vars

\* C22: isStale(S, k) returns true if and only if no update was ever stamped
\* for S or the time from S's last stamped update to the call's reading of
\* the clock is strictly greater than k ms; it never modifies the store.
C22_Staleness ==
    [][(call.op = "isStale, waiting" /\ call'.op = "isStale") =>
         /\ call'.ret =
              (\/ call.arg[1] \notin DOMAIN lastMsgTime_
               \/ call.arg[3] - lastMsgTime_[call.arg[1]] > call.arg[2])
         /\ UNCHANGED marketVars]_vars

\* the three answers: never stamped, stamped exactly k ms ago (not stale),
\* stamped longer ago
C22_Witness ==
    /\ call.op = "isStale"
    /\ call.ret
    /\ call.arg[1] \in DOMAIN lastMsgTime_
    /\ call.arg[2] = 2
    /\ call.arg[3] - lastMsgTime_[call.arg[1]] = 3

\* ------------------------------------------- the store's maps and its locks
\* Threads inside OrderBookManager, one access of a map or one lock
\* operation per step.  store.log records every change of the structure of a
\* map (an insertion): by whom, into which map, whether the thread held
\* globalMutex_, and whether another thread was about to use the same map
\* with no lock in common (a data race, after which the map holds the new
\* key or does not).

\* worker threads of startCombinedWebSocket, each also running the scanner's
\* getOrderBook calls from inside its message handler
StoreThreads == {1, 2}

\* the symbols messages carry; start() has registered BTCUSDT_FWD
StoreSymbols == {BTC \o USDT, ETH \o USDT}

\* operations one thread may begin
MaxStoreOps == 2

StoreIdle == [pc |-> "idle", symbol |-> <<>>, ops |-> 0]

StoreCtor ==
    [phase |-> "loading", globalMutex_ |-> 0,
     locks |-> [s \in StoreSymbols \cup {BTC \o USDT \o FWD} |-> 0],
     th |-> [t \in StoreThreads |-> StoreIdle],
     log |-> {}]

\* the map the next step of thread t uses, "" when it uses none
MapUsed(t) ==
    CASE store.th[t].pc \in {"msg:mutex", "get:mutex"} -> "mutexes_"
      [] store.th[t].pc \in {"msg:book", "get:read"} -> "books_"
      [] store.th[t].pc = "msg:stamp" -> "lastMsgTime_"
      [] OTHER -> ""

\* the locks thread t holds
Held(t) ==
    {s \in DOMAIN store.locks : store.locks[s] = t}
      \cup (IF store.globalMutex_ = t THEN {"globalMutex_"} ELSE {})

\* another thread is about to use the same map and shares no lock with t
Racing(t) ==
    \E u \in StoreThreads \ {t} :
      /\ MapUsed(u) = MapUsed(t)
      /\ Held(u) \cap Held(t) = {}

Insertion(t, map) ==
    [thread |-> t, map |-> map, symbol |-> store.th[t].symbol,
     global |-> store.globalMutex_ = t, raced |-> Racing(t)]

\* the key sets an insertion by t may leave: the key added, or, after a
\* race, the map as it was
AfterInsert(t, keys) ==
    {keys \cup {store.th[t].symbol}} \cup (IF Racing(t) THEN {keys} ELSE {})

notStore == <<walletVars, scannerVars, simVars, connVars, throttle, disk, pool,
              exchangeInfo, adjacencyOrder, bfsTriangles, bfsIndex, bestTriangles_, feed>>

Moved(t, pc) == [store EXCEPT !.th[t].pc = pc]

\* OrderBookManager::start, called while the catalog is loaded
StoreStart(symbol) ==
    /\ store.phase = "loading"
    /\ symbol \notin mutexes_
    /\ mutexes_' = mutexes_ \cup {symbol}
    /\ store' = [store EXCEPT !.log = @ \cup
                   {[thread |-> 0, map |-> "mutexes_", symbol |-> symbol,
                     global |-> TRUE, raced |-> FALSE]}]
    /\ UNCHANGED <<books_, lastMsgTime_, notStore>>

\* startCombinedWebSocket: the workers run from here on
StoreSpawn ==
    /\ store.phase = "loading"
    /\ store' = [store EXCEPT !.phase = "streaming"]
    /\ UNCHANGED <<mutexes_, books_, lastMsgTime_, notStore>>

\* a call begins: onCombinedMessage with a parsed message, or getOrderBook
StoreBegin(t, op, symbol) ==
    /\ store.phase = "streaming"
    /\ store.th[t].pc = "idle"
    /\ store.th[t].ops < MaxStoreOps
    /\ store' = [store EXCEPT !.th[t] = [pc |-> op \o ":mutex", symbol |-> symbol,
                                         ops |-> @.ops + 1]]
    /\ UNCHANGED <<mutexes_, books_, lastMsgTime_, notStore>>

\* mutexes_[symbol], the argument of the lock_guard: inserts a mutex when
\* the symbol has none
UseMutexes(t) ==
    /\ store.th[t].pc \in {"msg:mutex", "get:mutex"}
    /\ IF store.th[t].symbol \in mutexes_
       THEN /\ store' = Moved(t, SubSeq(store.th[t].pc, 1, 3) \o ":lock")
            /\ UNCHANGED mutexes_
       ELSE /\ mutexes_' \in AfterInsert(t, mutexes_)
            /\ store' = [Moved(t, SubSeq(store.th[t].pc, 1, 3) \o ":lock")
                           EXCEPT !.log = @ \cup {Insertion(t, "mutexes_")}]
    /\ UNCHANGED <<books_, lastMsgTime_, notStore>>

\* the lock_guard on the symbol's mutex
LockSymbol(t) ==
    /\ store.th[t].pc \in {"msg:lock", "get:lock"}
    /\ store.locks[store.th[t].symbol] = 0
    /\ store' = [Moved(t, IF store.th[t].pc = "msg:lock" THEN "msg:book" ELSE "get:read")
                   EXCEPT !.locks[store.th[t].symbol] = t]
    /\ UNCHANGED <<mutexes_, books_, lastMsgTime_, notStore>>

\* books_[symbol] = {newBids, newAsks}; the lock_guard's scope ends
StoreBookEntry(t) ==
    /\ store.th[t].pc = "msg:book"
    /\ IF store.th[t].symbol \in DOMAIN books_
       THEN /\ books_' = Put(books_, store.th[t].symbol,
                             [bids |-> <<Level(2, 1)>>, asks |-> <<Level(2, 1)>>])
            /\ store' = [Moved(t, "msg:global") EXCEPT !.locks[store.th[t].symbol] = 0]
       ELSE /\ \E keys \in AfterInsert(t, DOMAIN books_) :
                 books_' = [s \in keys |->
                              IF s \in DOMAIN books_ THEN books_[s]
                              ELSE [bids |-> <<Level(2, 1)>>, asks |-> <<Level(2, 1)>>]]
            /\ store' = [Moved(t, "msg:global")
                           EXCEPT !.locks[store.th[t].symbol] = 0,
                                  !.log = @ \cup {Insertion(t, "books_")}]
    /\ UNCHANGED <<mutexes_, lastMsgTime_, notStore>>

\* the lock_guard on globalMutex_
LockGlobal(t) ==
    /\ store.th[t].pc = "msg:global"
    /\ store.globalMutex_ = 0
    /\ store' = [Moved(t, "msg:stamp") EXCEPT !.globalMutex_ = t]
    /\ UNCHANGED <<mutexes_, books_, lastMsgTime_, notStore>>

\* lastMsgTime_[symbol] = now; the scope ends
Stamp(t) ==
    /\ store.th[t].pc = "msg:stamp"
    /\ lastMsgTime_' = Put(lastMsgTime_, store.th[t].symbol, now)
    /\ store' = [[Moved(t, "idle") EXCEPT !.globalMutex_ = 0]
                   EXCEPT !.log = IF store.th[t].symbol \in DOMAIN lastMsgTime_ THEN @
                                  ELSE @ \cup {Insertion(t, "lastMsgTime_")}]
    /\ UNCHANGED <<mutexes_, books_, notStore>>

\* getOrderBook: books_.count(symbol), the copy returned, the scope ends
ReadBook(t) ==
    /\ store.th[t].pc = "get:read"
    /\ store' = [Moved(t, "idle") EXCEPT !.locks[store.th[t].symbol] = 0]
    /\ UNCHANGED <<mutexes_, books_, lastMsgTime_, notStore>>

SsInit ==
    /\ balances_ = [a \in {BTC, ETH, USDT} |-> 0]
    /\ locked_ = [a \in {BTC, ETH, USDT} |-> 0]
    /\ txs = <<>>
    /\ call = Called("none", 0, <<>>, TRUE)
    /\ snap = <<>>
    /\ ScannerCtor({})
    /\ SimulatorCtor(FALSE, {})
    /\ OrderBookManagerCtor
    /\ WorkersCtor({})
    /\ throttle = ExecutorCtor(0)
    /\ disk = <<>>
    /\ pool = <<>>
    /\ store = StoreCtor

SsNext ==
    \/ StoreStart(BTC \o USDT \o FWD)
    \/ StoreSpawn
    \/ \E t \in StoreThreads, op \in {"msg", "get"}, symbol \in StoreSymbols :
         StoreBegin(t, op, symbol)
    \/ \E t \in StoreThreads : UseMutexes(t)
    \/ \E t \in StoreThreads : LockSymbol(t)
    \/ \E t \in StoreThreads : StoreBookEntry(t)
    \/ \E t \in StoreThreads : LockGlobal(t)
    \/ \E t \in StoreThreads : Stamp(t)
    \/ \E t \in StoreThreads : ReadBook(t)

SpecStore == SsInit /\ [][SsNext]_vars

\* C21: the structure of the store's maps (mutexes_, books_, lastMsgTime_)
\* is changed only by a thread that holds globalMutex_: no insertion is made
\* without it, by a first update for a symbol or by a get for a symbol with
\* no mutex yet.
C21_StoreLocking ==
    \A e \in store.log : e.global

\* ------------------------------------------------ the scanner's profit gate
\* the cheap estimate of the scan of thread th cleared minProfitThreshold_
CheapCleared(th) ==
    /\ BestLocalIdx(scan[th].profits, Len(scan[th].profits)).profit > minProfitThreshold_
    /\ BestLocalIdx(scan[th].profits, Len(scan[th].profits)).idx >= 1

\* C23: once the cheap estimate cleared the threshold, the scan goes on to
\* the cooldown check exactly when the full estimate is positive and at
\* least the configured minProfitUSDT_; otherwise the cycle is skipped with
\* no cooldown time, no change of the wallet and no failure recorded.
C23_ProfitGate ==
    [][\A th \in ScanThreads, est \in Estimates :
         (ScanSelect(th, est) /\ CheapCleared(th)) =>
           IF est > 0 /\ est * minProfitUSDT_[2] >= minProfitUSDT_[1]
           THEN scan'[th].pc = "gate"
           ELSE /\ scan'[th] = Idle
                /\ UNCHANGED <<walletVars, lastAttemptMap_, failTimestamps_>>]_vars

\* --------------------------------------------------- the best-triangle queue
\* bestTriangles_ is a std::priority_queue of TriPriority, largest profit on
\* top; here the sequence of its entries.  Profits are in units of a third
\* of the 1e-12 by which getBestTriangle compares, so that profits closer
\* than the tolerance exist.

\* 1e-12, in the unit of the queue's profits
FreshTolerance == 3

\* pushes the queue specification makes
MaxQueue == 4

\* calculateProfit's results handed to updateTrianglePriority
QueueProfits == {0, 1, 2, 9}

\* triIdx as passed: two triangles, and the index on either side of the list
QueueIndices == {0, 1, 2, Len(triangles_) + 1}

\* a queue with the smallest profit on top
TopIndices_Least(queue) ==
    {i \in 1..Len(queue) : \A j \in 1..Len(queue) : ~(queue[j].profit < queue[i].profit)}

\* TriPriority::operator< orders by profit alone: top() is an entry no
\* other entry is greater than
TopIndices(queue) ==
    {i \in 1..Len(queue) : \A j \in 1..Len(queue) : ~(queue[i].profit < queue[j].profit)}

\* pop() of the entry at position i
Popped(queue, i) == SubSeq(queue, 1, i - 1) \o SubSeq(queue, i + 1, Len(queue))

\* a comparison without the tolerance
IsFresh_Exact(last, item) == last[item.triIdx] = item.profit

\* std::fabs(stored - top.profit) < 1e-12
IsFresh(last, item) == Abs(last[item.triIdx] - item.profit) < FreshTolerance

\* getBestTriangle's loop: what it may return and the queue it leaves,
\* whichever of several equal entries is on top
RECURSIVE GetBestTriangle(_, _)
GetBestTriangle(queue, last) ==
    IF queue = <<>>
    THEN {[found |-> FALSE, profit |-> 0, triIdx |-> 0, queue |-> queue]}
    ELSE UNION {IF IsFresh(last, queue[i])
                THEN {[found |-> TRUE, profit |-> last[queue[i].triIdx],
                       triIdx |-> queue[i].triIdx, queue |-> queue]}
                ELSE GetBestTriangle(Popped(queue, i), last)
                : i \in TopIndices(queue)}

notQueue == <<balances_, locked_, txs, snap, now, lastAttemptMap_, failTimestamps_,
              totalTrades_, scan, lastStart, simVars, exchangeInfo, adjacencyOrder,
              bfsTriangles, bfsIndex, mutexes_, books_, lastMsgTime_, feed,
              connVars, throttle, auxVars>>

\* updateTrianglePriority, under bestTriMutex_
UpdateTrianglePriority(triIdx, profit) ==
    /\ Len(bestTriangles_) < MaxQueue
    /\ IF triIdx < 1 \/ triIdx > Len(triangles_)
       THEN UNCHANGED <<lastProfits_, bestTriangles_>>
       ELSE /\ lastProfits_' = [lastProfits_ EXCEPT ![triIdx] = profit]
            /\ bestTriangles_' = Append(bestTriangles_,
                                        [profit |-> profit, triIdx |-> triIdx])
    /\ call' = Called("updateTrianglePriority", 0, <<triIdx, profit>>, TRUE)
    /\ UNCHANGED notQueue

\* getBestTriangle, under bestTriMutex_; the call records the queue it found
QueueGetBest ==
    /\ \E r \in GetBestTriangle(bestTriangles_, lastProfits_) :
         /\ bestTriangles_' = r.queue
         /\ call' = Called("getBestTriangle", 0, bestTriangles_,
                           [found |-> r.found, profit |-> r.profit, triIdx |-> r.triIdx])
    /\ UNCHANGED <<lastProfits_, notQueue>>

QuInit == ScStart({})

QuNext ==
    \/ \E triIdx \in QueueIndices, profit \in QueueProfits :
         UpdateTrianglePriority(triIdx, profit)
    \/ QueueGetBest

SpecQueue == QuInit /\ [][QuNext]_vars

\* the entries of queue that are in it more often than in kept
Discarded(queue, kept) ==
    {e \in {queue[i] : i \in 1..Len(queue)} :
       Cardinality({i \in 1..Len(queue) : queue[i] = e})
         > Cardinality({i \in 1..Len(kept) : kept[i] = e})}

\* C24 as the specification has it: getBestTriangle discards the entries
\* whose profit differs from the triangle's lastProfits_, every entry it
\* discards is one of these, and it returns a triangle with its lastProfits_
\* that no triangle's lastProfits_ exceeds; it returns false exactly when no
\* entry's profit equals its triangle's lastProfits_.
C24_BestCycle ==
    call.op = "getBestTriangle" =>
      /\ \A e \in Discarded(call.arg, bestTriangles_) : ~IsFresh_Exact(lastProfits_, e)
      /\ call.ret.found =>
           /\ call.ret.profit = lastProfits_[call.ret.triIdx]
           /\ \E i \in 1..Len(bestTriangles_) :
                /\ bestTriangles_[i].triIdx = call.ret.triIdx
                /\ IsFresh_Exact(lastProfits_, bestTriangles_[i])
                /\ \A j \in 1..Len(bestTriangles_) :
                     bestTriangles_[j].profit <= bestTriangles_[i].profit
           /\ \A n \in DOMAIN lastProfits_ : lastProfits_[n] <= call.ret.profit
      /\ ~call.ret.found <=>
           \A i \in 1..Len(call.arg) : ~IsFresh_Exact(lastProfits_, call.arg[i])

\* C24, amended: an entry counts as fresh when its profit is within 1e-12
\* of its triangle's lastProfits_.  getBestTriangle discards stale entries
\* only, each with a profit no less than any entry it keeps; it returns the
\* triangle of a fresh entry that no kept entry exceeds, which stays in the
\* queue, with that triangle's lastProfits_, and no triangle's lastProfits_
\* exceeds the returned profit by 1e-12 or more; it returns false exactly
\* when the queue found held no fresh entry, and leaves the queue empty then.
C24_BestCycleWithin ==
    call.op = "getBestTriangle" =>
      /\ \A e \in Discarded(call.arg, bestTriangles_) :
           /\ ~IsFresh(lastProfits_, e)
           /\ \A j \in 1..Len(bestTriangles_) : bestTriangles_[j].profit <= e.profit
      /\ \A e \in {bestTriangles_[i] : i \in 1..Len(bestTriangles_)} :
           Cardinality({i \in 1..Len(bestTriangles_) : bestTriangles_[i] = e})
             <= Cardinality({i \in 1..Len(call.arg) : call.arg[i] = e})
      /\ call.ret.found =>
           /\ call.ret.profit = lastProfits_[call.ret.triIdx]
           /\ \E i \in 1..Len(bestTriangles_) :
                /\ bestTriangles_[i].triIdx = call.ret.triIdx
                /\ IsFresh(lastProfits_, bestTriangles_[i])
                /\ \A j \in 1..Len(bestTriangles_) :
                     bestTriangles_[j].profit <= bestTriangles_[i].profit
           /\ \A n \in DOMAIN lastProfits_ :
                lastProfits_[n] < call.ret.profit + FreshTolerance
      /\ ~call.ret.found <=>
           \A i \in 1..Len(call.arg) : ~IsFresh(lastProfits_, call.arg[i])
      /\ ~call.ret.found => bestTriangles_ = <<>>

\* a stale entry was on top and was discarded, and the triangle returned is
\* not the one updated last
C24_Witness ==
    /\ call.op = "getBestTriangle"
    /\ call.ret.found
    /\ Len(bestTriangles_) < Len(call.arg)
    /\ Len(bestTriangles_) >= 2
    /\ call.arg[Len(call.arg)].triIdx # call.ret.triIdx

\* -------------------------------------------------- the cycles of a catalog
\* the products a catalog of the enumeration specification lists, in order;
\* BTCUSDT and USDTBTC give two edges each way between the same assets
CatalogPool ==
    <<<<BTC, USDT>>, <<ETH, BTC>>, <<ETH, USDT>>, <<BNB, USDT>>, <<BNB, BTC>>,
      <<USDT, BTC>>>>

\* every choice of status for the products of the pool
CatalogInfos ==
    {[i \in 1..Len(CatalogPool) |-> Product(CatalogPool[i][1], CatalogPool[i][2], st[i])]
       : st \in [1..Len(CatalogPool) -> {"TRADING", "BREAK"}]}

CtNext ==
    \E info \in CatalogInfos :
      \E order \in IterationOrders(AdjacencyKeys(info)) :
        LoadTrianglesFromBinanceExchangeInfo(info, order)

SpecCatalog == MkInit /\ [][CtNext]_vars

\* the tradable products of the catalog loaded
Tradable == {i \in 1..Len(exchangeInfo) : exchangeInfo[i].status = "TRADING"}

\* the edges they stand for: FORWARD base -> quote, INVERSE quote -> base
CatalogEdges ==
    {[from |-> exchangeInfo[i].baseAsset, to |-> exchangeInfo[i].quoteAsset,
      name |-> exchangeInfo[i].symbol \o FWD] : i \in Tradable}
    \cup {[from |-> exchangeInfo[i].quoteAsset, to |-> exchangeInfo[i].baseAsset,
           name |-> exchangeInfo[i].symbol \o INV] : i \in Tradable}

\* the ordered triples of edges A -> B, B -> C, C -> A
CatalogCycles ==
    {c \in CatalogEdges \X CatalogEdges \X CatalogEdges :
       c[1].to = c[2].from /\ c[2].to = c[3].from /\ c[3].to = c[1].from}

Emitted(i) == <<bfsTriangles[i].base, bfsTriangles[i].path>>

\* C25: the catalog holds exactly the ordered triples [e1, e2, e3] with
\* e1: A -> B, e2: B -> C, e3: C -> A over the FORWARD and INVERSE edges of
\* the tradable products, each once, and with every triple its two
\* rotations; no edge of a product that is not tradable occurs; the reverse
\* index lists, under each edge name, exactly the triples that hold it.
C25_CycleEnumeration ==
    feed.phase = "loaded" =>
      /\ {Emitted(i) : i \in 1..Len(bfsTriangles)}
           = {<<c[1].from, <<c[1].name, c[2].name, c[3].name>>>> : c \in CatalogCycles}
      /\ Len(bfsTriangles) = Cardinality(CatalogCycles)
      /\ \A i \in 1..Len(bfsTriangles) :
           /\ \E j \in 1..Len(bfsTriangles) :
                bfsTriangles[j].path = <<bfsTriangles[i].path[2], bfsTriangles[i].path[3],
                                         bfsTriangles[i].path[1]>>
           /\ \A k \in 1..3 :
                /\ \E p \in Tradable : exchangeInfo[p].symbol = RawSym(bfsTriangles[i].path[k])
                /\ bfsTriangles[i].path[k] \in DOMAIN bfsIndex
                /\ Cardinality({n \in 1..Len(bfsIndex[bfsTriangles[i].path[k]]) :
                                  bfsIndex[bfsTriangles[i].path[k]][n] = i}) = 1
      /\ \A name \in DOMAIN bfsIndex :
           \A n \in 1..Len(bfsIndex[name]) :
             \E k \in 1..3 : bfsTriangles[bfsIndex[name][n]].path[k] = name

\* two triangles that share the edges of BTCUSDT, parallel edges between BTC
\* and USDT, and a product that is not tradable and would close a third
C25_Witness ==
    /\ feed.phase = "loaded"
    /\ \E i \in 1..Len(exchangeInfo) :
         exchangeInfo[i].symbol = ETH \o USDT /\ exchangeInfo[i].status = "BREAK"
    /\ {BNB \o BTC, USDT \o BTC, BTC \o USDT, BNB \o USDT, ETH \o BTC}
         \subseteq {exchangeInfo[i].symbol : i \in Tradable}
    /\ Len(bfsTriangles) = 12
    /\ Len(bfsIndex[BNB \o USDT \o FWD]) = 6

\* ------------------------------------------------------------ the depth walk
\* One side of a book, best price first, walked for two desired quantities.
\* Quantities and prices are values of the modelled floating point format.

\* prices and quantities of the levels, desired base quantities
DepthPrices == {3, 5, 6}

DepthQuantities == {1, 2, 3}

DesiredQuantities == 1..7

\* the levels a side may hold
MaxLevels == 3

\* a side as onCombinedMessage stores it: bids by falling price, asks by
\* rising price
DepthSides(isSell) ==
    {levels \in UNION {[1..n -> [price : DepthPrices, quantity : DepthQuantities]]
                         : n \in 1..MaxLevels} :
       \A i \in 1..(Len(levels) - 1) :
         IF isSell THEN levels[i].price > levels[i + 1].price
         ELSE levels[i].price < levels[i + 1].price}

\* double avgPx = cost / filled
AvgPx(fill) == FDiv(fill.cost, fill.filled)

\* the partial fill of doLeg and of simulateLegFake, for two quantities on
\* the same side
DepthWalk(isSell, levels, q1, q2) ==
    /\ call.op = "none"
    /\ call' = Called("fill", 0, <<isSell, levels, q1, q2>>,
                      <<Fill(levels, q1), Fill(levels, q2)>>)
    /\ UNCHANGED <<balances_, locked_, txs, snap, scannerVars, simVars, extVars>>

DwNext ==
    \E isSell \in BOOLEAN, q1, q2 \in DesiredQuantities :
      \E levels \in DepthSides(isSell) :
        q1 < q2 /\ DepthWalk(isSell, levels, q1, q2)

SpecDepth == MkInit /\ [][DwNext]_vars

RECURSIVE SumQuantity(_)
SumQuantity(levels) ==
    IF levels = <<>> THEN 0 ELSE Head(levels).quantity + SumQuantity(Tail(levels))

\* C26: on one side and for q1 < q2 the walk fills no less for q2 than for
\* q1, fills neither more than was desired nor more than the side holds, and
\* the average price for q2 is no better than for q1: no lower on the asks,
\* no higher on the bids.
C26_DepthMonotone ==
    call.op = "fill" =>
      /\ call.ret[1].filled <= call.ret[2].filled
      /\ call.ret[1].filled <= call.arg[3]
      /\ call.ret[2].filled <= call.arg[4]
      /\ call.ret[2].filled <= SumQuantity(call.arg[2])
      /\ IF call.arg[1]
         THEN AvgPx(call.ret[1]) >= AvgPx(call.ret[2])
         ELSE AvgPx(call.ret[1]) <= AvgPx(call.ret[2])

\* ------------------------------------------------- the estimate's frame
\* <<BTC, ETH, USDT>> the wallet holds when the estimate is asked for
EstimateBalances == {0, 1, 4, 8} \X {0, 4} \X {0, 1, 12}

\* the wallet an estimate with its first leg made on the wallet would leave
EstimateLeaves_FirstLeg(w, tri, obs) ==
    DoLegLocal(w, BeginTransaction, tri.path[1], obs[1]).w

\* the wallet estimateTriangleProfitUSDT leaves: the legs run on the local
\* copies fakeUSDT, fakeBTC, fakeETH of the free balances
EstimateLeaves(w, tri, obs) == w

\* estimateTriangleProfitUSDT, as the scanner calls it: getFreeBalance takes
\* walletMutex_, the books are passed by const reference
EstimateCall(t, obs) ==
    /\ mutexHolder["walletMutex_"] = 0
    /\ execs < MaxExecs
    /\ execs' = execs + 1
    /\ balances_' = EstimateLeaves(TheWallet, triangles_[t], obs).bal
    /\ locked_' = EstimateLeaves(TheWallet, triangles_[t], obs).lck
    /\ call' = Called("estimate", 0, <<t, obs>>,
                      EstimateTriangleProfitUSDT(TheWallet, triangles_[t],
                                                 obs[1], obs[2], obs[3]))
    /\ UNCHANGED <<txs, snap, scannerVars, cfg, cumulativeProfit_, liveMode_, assetLocks_, mutexHolder, ex,
                   failReason, orders, extVars>>

EsInit ==
    /\ \E d \in EstimateBalances :
         LET w == SetBalance(SetBalance(SetBalance(WalletCtor, BTC, d[1]),
                                        ETH, d[2]), USDT, d[3])
         IN balances_ = w.bal /\ locked_ = w.lck
    /\ txs = <<>>
    /\ call = Called("none", 0, <<>>, TRUE)
    /\ snap = <<>>
    /\ ScannerCtor({})
    /\ SimulatorCtor(FALSE, {})
    /\ ExtCtor

EsNext ==
    \E t \in ExecTriangles, obs \in BookTriples : EstimateCall(t, obs)

SpecEstimate == EsInit /\ [][EsNext]_vars

\* C30: a call of estimateTriangleProfitUSDT, whether it returns a profit or
\* -1, changes no balance of the wallet, no order book, neither the cooldown
\* nor the failure map, and no trade counter.
C30_EstimateFrame ==
    [][(call'.op = "estimate" /\ execs' # execs) =>
         UNCHANGED <<balances_, locked_, txs, books_, lastMsgTime_, lastAttemptMap_,
                     failTimestamps_, totalTrades_, orders>>]_vars

\* the second estimate of a behaviour: it ran its three legs on a wallet that
\* holds BTC and returned a profit
C30_Witness ==
    /\ call.op = "estimate"
    /\ call.ret > 0
    /\ execs = 2
    /\ GetFreeBalance(TheWallet, BTC) > 0

\* ------------------------------------------- executes over disjoint assets
\* Thread 1 runs the cycle over BTC and USDT, thread 2 the cycle over ETH
\* and BUSD, of the pairs file, each once and in live mode, where a leg
\* fails when its order does.  The estimate values BTC at the first and at
\* the third book's bid, so both pass the entry checks on these books.
DisjointCycle == [p \in ExecThreads |-> p + 2]

DisjointBooks ==
    <<GoodBook, GoodBook,
      [bids |-> <<[price |-> 56, quantity |-> 8]>>,
       asks |-> <<[price |-> 58, quantity |-> 8]>>]>>

PlInit ==
    /\ balances_ = SetBalance(SetBalance(SetBalance(WalletCtor, BTC, 8), ETH, 8),
                              USDT, 1).bal
    /\ locked_ = WalletCtor.lck
    /\ txs = <<>>
    /\ call = Called("none", 0, <<>>, TRUE)
    /\ snap = <<>>
    /\ ScannerCtor({})
    /\ SimulatorCtor(TRUE, ExecThreads)
    /\ ExtCtor

\* thread p has not called simulateTradeDepthWithWallet yet
NotEntered(p) == execs = 0 \/ call.tx # p

\* a step of thread p inside simulateTradeDepthWithWallet
ExecStep(p) ==
    \/ ExecLock(p)
    \/ LeafAcquire(p)
    \/ LeafRelease(p)
    \/ \E outcome \in OrderOutcomes : ExecLeg(p, outcome)
    \/ \E outcome \in OrderOutcomes : ExecReverse(p, outcome)
    \/ ExecRollback(p)
    \/ ExecCommit(p)
    \/ ExecCount(p)
    \/ ExecSum(p)

\* a step that ends a lock_guard scope of thread p
ExecLeave(p) ==
    \/ LeafRelease(p)
    \/ \E outcome \in OrderOutcomes : ExecLeg(p, outcome)

PlNext ==
    \/ \E p \in ExecThreads :
         NotEntered(p) /\ ExecEnter(p, DisjointCycle[p], DisjointBooks)
    \/ \E p \in ExecThreads : ExecStep(p)

SpecParallel == PlInit /\ [][PlNext]_vars

\* where thread p stands inside simulateTradeDepthWithWallet
Position(p) ==
    IF ex[p].pc = "idle" THEN <<"idle">>
    ELSE <<ex[p].pc, ex[p].held, ex[p].leg, ex[p].sec, ex[p].inside, ex[p].rev>>

\* ExecStep(p) is enabled: the mutex thread p needs next is free
Runnable(p) ==
    CASE ex[p].pc = "lock" -> assetLocks_[ex[p].allAssets[ex[p].held + 1]] = 0
      [] ex[p].pc = "leg" -> ex[p].inside \/ mutexHolder[LegSections[ex[p].sec]] = 0
      [] ex[p].pc = "reverse" -> mutexHolder["throttleMutex_"] = 0
      [] ex[p].pc = "rollback" -> mutexHolder["walletMutex_"] = 0
      [] ex[p].pc = "commit" -> mutexHolder["walletMutex_"] = 0
      [] ex[p].pc \in {"count", "sum"} -> TRUE
      [] OTHER -> FALSE

\* WF_vars(ExecStep(p)), with the enabling condition and the steps of
\* ExecStep(p) written as predicates on the thread's position
KeepsRunning(p) ==
    \/ []<>(~Runnable(p))
    \/ []<><<ex[p].pc # "idle" /\ Position(p)' # Position(p)>>_vars

\* WF_vars(ExecLeave(p)), written likewise: no thread stops for good inside
\* the scope of a lock_guard
LeavesScopes(p) ==
    \/ []<>(~(ex[p].pc = "leg" /\ ex[p].inside))
    \/ []<><<ex[p].pc = "leg" /\ ex[p].inside /\ ~ex'[p].inside>>_vars

\* thread 2 keeps running; thread 1 may stop for good anywhere, its asset
\* locks held, except inside the scope of a lock_guard
SpecParallelFair ==
    /\ SpecParallel
    /\ KeepsRunning(2)
    /\ LeavesScopes(1)

\* C29: with the asset sets of the two cycles disjoint, an execute never
\* finds the asset lock it is about to take held, and the execute of thread
\* 2, once past its entry checks, takes all its asset locks and returns
\* through commit or rollback whatever thread 1 holds and however long.
C29_DisjointParallel ==
    /\ [](\A p \in ExecThreads :
            ex[p].pc = "lock" => assetLocks_[ex[p].allAssets[ex[p].held + 1]] = 0)
    /\ \A p \in ExecThreads :
         [](ex[p].pc # "idle" =>
              {ex[p].allAssets[i] : i \in 1..Len(ex[p].allAssets)}
                = CycleAssets(triangles_[DisjointCycle[p]]))
    /\ (ex[2].pc = "lock") ~> (ex[2].pc = "idle")

\* thread 1 stands right behind its lock loop, BTC and USDT held, while
\* thread 2 took ETH and BUSD, sold ETH for BUSD three times and committed
C29_Witness ==
    /\ ex[1].pc = "leg" /\ ex[1].leg = 1 /\ ex[1].sec = 1 /\ ~ex[1].inside
    /\ assetLocks_[BTC] = 1 /\ assetLocks_[USDT] = 1
    /\ ex[2].pc = "idle" /\ ex[2].ret
    /\ call.op = "execute" /\ call.tx = 2
    /\ BUSD \in DOMAIN balances_ /\ balances_[BUSD] > 0

\* ------------------------------------------------- the local leg by itself
\* doLeg in local mode applied to drawn wallets, pairs and books, inside one
\* transaction as simulateTradeDepthWithWallet runs it: beginTransaction, up
\* to three legs, rollbackTransaction after the first leg that returns false,
\* commitTransaction after the third that returns true.  BTCUSDT is a sell
\* (quote USDT), BTCUSDC a buy (quote USDC).

LegPairs == {BTC \o USDT, BTC \o USDC}

\* a bid side that fills a quarter of what is desired
ThinBook == [bids |-> <<[price |-> 10, quantity |-> 1]>>,
             asks |-> <<[price |-> 10, quantity |-> 8]>>]

\* two levels at one price
TwoLevelBook == [bids |-> <<[price |-> 10, quantity |-> 1],
                            [price |-> 10, quantity |-> 8]>>,
                 asks |-> <<[price |-> 10, quantity |-> 1],
                            [price |-> 10, quantity |-> 8]>>]

LegBooks == {GoodBook, ThinBook, TwoLevelBook, EmptyBook}

\* totals and locked amounts as setBalance and loadFromFile leave them; a
\* locked amount above the total comes from a setBalance below the locked
\* amount that was loaded
LegTotals == {<<8, 1, 0>>, <<8, 1, 40>>, <<0, 1, 40>>}

LegLocked == {<<0, 0>>, <<4, 0>>, <<16, 0>>, <<0, 64>>}

LgInit ==
    /\ \E d \in LegTotals, l \in LegLocked :
         LET w == SetBalance(SetBalance(WalletCtor, BTC, d[1]), USDT, d[2])
         IN /\ balances_ = IF d[3] = 0 THEN w.bal ELSE SetBalance(w, USDC, d[3]).bal
            /\ locked_ = [a \in DOMAIN balances_ |->
                            IF a = BTC THEN l[1] ELSE IF a = USDT THEN l[2] ELSE 0]
    /\ txs = <<>>
    /\ call = Called("none", 0, <<>>, TRUE)
    /\ snap = <<>>
    /\ ScannerCtor({})
    /\ SimulatorCtor(FALSE, {})
    /\ ExtCtor

\* auto tx = wallet_->beginTransaction()
LegBegin ==
    /\ call.op \in {"none", "commit", "rollback"}
    /\ WBegin

\* the number of the leg the last call was, 0 after beginTransaction
LegNo == IF call.op = "doLeg" THEN call.arg[1] ELSE 0

\* doLeg(tx, pairName, ob, ...) of the next leg
LegCall(pairName, ob) ==
    /\ call.op \in {"begin", "doLeg"}
    /\ call.ret
    /\ LegNo < 3
    /\ \E r \in {DoLegLocal(TheWallet, txs[Len(txs)], pairName, ob)} :
         /\ balances_' = r.w.bal
         /\ locked_' = r.w.lck
         /\ txs' = [txs EXCEPT ![Len(txs)] = r.tx]
         /\ call' = Called("doLeg", Len(txs), <<LegNo + 1, pairName, ob>>, r.ok)
    /\ UNCHANGED snap
    /\ UNCHANGED <<scannerVars, simVars, extVars>>

\* a leg returned false: rollbackTransaction(tx); return false
LegRollback ==
    /\ call.op = "doLeg"
    /\ ~call.ret
    /\ WRollback(Len(txs))

\* the third leg returned true: commitTransaction(tx)
LegCommit ==
    /\ call.op = "doLeg"
    /\ call.ret
    /\ LegNo = 3
    /\ WCommit(Len(txs))

LgNext ==
    \/ LegBegin
    \/ \E pairName \in LegPairs, ob \in LegBooks : LegCall(pairName, ob)
    \/ LegRollback
    \/ LegCommit

SpecLeg == LgInit /\ [][LgNext]_vars

\* what the walk of the leg fills: the levels of the side taken in order,
\* each up to what remains
LegFill(w, pairName, ob) ==
    LET bq == ParseSymbol(pairName)
        isSell == IsSell(bq.quote)
        used == FMulQ(GetFreeBalance(w, IF isSell THEN bq.base ELSE bq.quote),
                      maxFractionPerTrade_)
    IN Fill(IF isSell THEN ob.bids ELSE ob.asks,
            IF isSell THEN used ELSE FDiv(used, ob.asks[1].price))

\* the total of an asset after a leg that filled f: base and quote moved by
\* the filled quantity and the cost with the fee, nothing else
TotalAfterLeg(w, pairName, f, a) ==
    LET bq == ParseSymbol(pairName)
        fee == feePercent_
        old == GetTotalBalance(w, a)
    IN IF IsSell(bq.quote)
       THEN IF a = bq.base THEN FSub(old, f.filled)
            ELSE IF a = bq.quote
                 THEN FAdd(old, FMulQ(f.cost, <<fee[2] - fee[1], fee[2]>>))
            ELSE old
       ELSE IF a = bq.quote
            THEN FSub(old, FMulQ(f.cost, <<fee[2] + fee[1], fee[2]>>))
            ELSE IF a = bq.base THEN FAdd(old, f.filled)
            ELSE old

\* C31: a local leg that returns true leaves every total as TotalAfterLeg
\* has it (sell: base less the filled quantity, quote plus cost * (1 - fee);
\* buy: quote less cost * (1 + fee), base plus the filled quantity; every
\* other asset as it was), changes no locked amount and adds no asset but
\* its base and quote; it returns true only when both applyChange calls were
\* accepted and recorded; after a leg that returns false the transaction is
\* rolled back and nothing else is done with it, and a commit follows three
\* legs that returned true and nothing else.
C31_LocalLegEffect ==
    [][/\ (call'.op = "doLeg" /\ call'.ret) =>
            LET pairName == call'.arg[2]
                bq == ParseSymbol(pairName)
                f == LegFill(TheWallet, pairName, call'.arg[3])
            IN /\ DOMAIN balances_' = DOMAIN balances_ \cup {bq.base, bq.quote}
               /\ \A a \in DOMAIN balances_' :
                    /\ balances_'[a] = TotalAfterLeg(TheWallet, pairName, f, a)
                    /\ locked_'[a] = IF a \in DOMAIN locked_ THEN locked_[a] ELSE 0
               /\ Len(txs'[call'.tx].changes) = Len(txs[call'.tx].changes) + 2
       /\ (call.op = "doLeg" /\ ~call.ret) =>
            /\ call'.op = "rollback"
            /\ ~txs'[call.tx].active
       /\ call'.op = "commit" =>
            /\ call.op = "doLeg" /\ call.ret /\ call.arg[1] = 3
            /\ call'.ret
            /\ UNCHANGED <<balances_, locked_>>]_vars

\* a buy succeeded, then a sell whose first applyChange was accepted and
\* whose second was rejected returned false, and the transaction was rolled
\* back
C31_Witness ==
    /\ call.op = "rollback"
    /\ Len(txs) = 1
    /\ Len(txs[1].changes) = 3
    /\ txs[1].changes[1].asset = USDC /\ txs[1].changes[1].deltaBalance < 0
    /\ txs[1].changes[2].asset = BTC /\ txs[1].changes[2].deltaBalance > 0
    /\ txs[1].changes[3].asset = BTC /\ txs[1].changes[3].deltaBalance < 0

\* ------------------------------------------------ depth payloads as text
\* onCombinedMessage from the text of the payload on: json::parse, the
\* "stream" and "data" members, the '@' of the stream name, the "bids" and
\* "asks" members, std::stod of the two strings of every level.  Whatever
\* throws inside the try block is caught at its end.

\* the text is a number and nothing else: [-]digits[.digits]
IsNumeric(text) ==
    LET from == IF text # <<>> /\ text[1] = "-" THEN 2 ELSE 1
        whole == ReadDigits(text, from, 0, 0)
        dot == from + whole.count
        frac == IF dot <= Len(text) /\ text[dot] = "."
                THEN ReadDigits(text, dot + 1, 0, 0)
                ELSE [value |-> 0, count |-> 0]
    IN /\ whole.count + frac.count > 0
       /\ Len(text) = (from - 1) + whole.count
                      + (IF frac.count > 0 THEN 1 + frac.count ELSE 0)

\* std::stod throws std::invalid_argument: no conversion could be made, the
\* text does not begin with a number
StodThrows(text) ==
    LET from == IF text # <<>> /\ text[1] = "-" THEN 2 ELSE 1
        whole == ReadDigits(text, from, 0, 0)
        dot == from + whole.count
    IN /\ whole.count = 0
       /\ ~(dot < Len(text) /\ text[dot] = "."
            /\ ReadDigits(text, dot + 1, 0, 0).count > 0)

\* std::stod where it does not throw: the number the text begins with, what
\* follows it ignored
Stod(text) == ParseFloat(text)

\* {px, qty} of the levels of one side
StodLevels(levels) ==
    [i \in 1..Len(levels) |->
       [price |-> Stod(levels[i][1]), quantity |-> Stod(levels[i][2])]]

SideThrows(levels) ==
    \E i \in 1..Len(levels) : StodThrows(levels[i][1]) \/ StodThrows(levels[i][2])

\* the handler returns or throws before it touches the store
Returns(raw) ==
    \/ ~raw.parses
    \/ ~raw.hasStream \/ ~raw.hasData
    \/ AtPos(raw.stream) = 0
    \/ ~raw.hasBids \/ ~raw.hasAsks
    \/ SideThrows(raw.bids) \/ SideThrows(raw.asks)

\* OrderBookManager::onCombinedMessage of a payload given as text
OnRawMessage(raw, t) ==
    IF Returns(raw)
    THEN /\ feed.phase = "streaming"
         /\ feed.handled < MaxMsgs
         /\ feed' = [feed EXCEPT !.handled = @ + 1, !.payload = [raw |-> raw]]
         /\ UNCHANGED <<now, lastProfits_, bestTriangles_, mutexes_, books_, lastMsgTime_>>
         /\ UNCHANGED <<connVars, throttle, auxVars, walletVars, simVars, lastAttemptMap_,
                        failTimestamps_, totalTrades_, scan, lastStart, exchangeInfo,
                        adjacencyOrder, bfsTriangles, bfsIndex>>
    ELSE OnCombinedMessage([stream |-> raw.stream, bids |-> StodLevels(raw.bids),
                            asks |-> StodLevels(raw.asks), raw |-> raw], t)

Text2 == <<"2">>

Text1 == <<"1">>

\* a price followed by a letter, and no number at all
Text2x == <<"2", "x">>

TextAbc == <<"a", "b", "c">>

\* a payload of the expected shape
RawDepth(stream, bids, asks) ==
    [parses |-> TRUE, hasStream |-> TRUE, hasData |-> TRUE, stream |-> stream,
     hasBids |-> TRUE, hasAsks |-> TRUE, bids |-> bids, asks |-> asks]

GoodRaw == RawDepth(StreamOf(BTC \o USDT \o FWD), <<<<Text1, Text1>>>>, <<<<Text2, Text1>>>>)

\* payloads: well-formed ones, text that is no JSON, a member missing, a
\* level that is no number
RawMessages ==
    {GoodRaw,
     RawDepth(StreamOf(BTC \o USDT \o FWD), <<<<Text2, Text2>>>>, <<<<Text2, Text2>>>>),
     [GoodRaw EXCEPT !.parses = FALSE],
     [GoodRaw EXCEPT !.hasStream = FALSE],
     [GoodRaw EXCEPT !.hasData = FALSE],
     [GoodRaw EXCEPT !.hasBids = FALSE],
     [GoodRaw EXCEPT !.hasAsks = FALSE],
     RawDepth(StreamOf(BTC \o USDT \o FWD), <<<<Text2, Text2>>>>, <<<<TextAbc, Text1>>>>),
     RawDepth(StreamOf(BTC \o USDT \o FWD), <<<<Text2, Text2>>>>, <<<<Text2, TextAbc>>>>),
     RawDepth(StreamOf(BTC \o USDT \o FWD), <<<<Text2x, Text2>>>>, <<<<Text2, Text1>>>>)}

RwNext ==
    \/ \E info \in ExchangeInfos :
         \E order \in IterationOrders(AdjacencyKeys(info)) :
           LoadTrianglesFromBinanceExchangeInfo(info, order)
    \/ StartCombinedWebSocket
    \/ \E raw \in RawMessages : OnRawMessage(raw, now + 1)

SpecRaw == MkInit /\ [][RwNext]_vars

\* the payload is malformed as the claim counts it
Malformed(raw) ==
    \/ ~raw.parses
    \/ ~raw.hasStream \/ ~raw.hasData
    \/ ~raw.hasBids \/ ~raw.hasAsks
    \/ \E i \in 1..Len(raw.bids) : ~IsNumeric(raw.bids[i][1]) \/ ~IsNumeric(raw.bids[i][2])
    \/ \E i \in 1..Len(raw.asks) : ~IsNumeric(raw.asks[i][1]) \/ ~IsNumeric(raw.asks[i][2])

\* C32: a payload that does not parse, lacks "stream", "data", "bids" or
\* "asks", or has a level that is no number changes no book, no last-update
\* time and no store entry, the scanner is not told, and the worker has
\* handled the message and takes the next.  (Violated: std::stod reads the
\* number a text begins with and ignores the rest.)
C32_MalformedDropped ==
    [][(feed'.handled = feed.handled + 1 /\ Malformed(feed'.payload.raw)) =>
         /\ books_' = books_
         /\ lastMsgTime_' = lastMsgTime_
         /\ mutexes_' = mutexes_
         /\ feed'.notified = feed.notified]_vars

\* ------------------------------------------------- live legs partly filled
\* One thread executes in live mode; the exchange refuses an order, fills it
\* completely, fills half of it, or fills an eighth of it (less than
\* minFillRatio_ of what was desired).
PartialOutcomes ==
    OrderOutcomes \cup {[success |-> TRUE, part |-> <<1, 2>>, price |-> 10],
                        [success |-> TRUE, part |-> <<1, 8>>, price |-> 10]}

PartialBalances == {<<16, 16, 1>>}

PtInit ==
    /\ \E d \in PartialBalances :
         LET w == SetBalance(SetBalance(SetBalance(WalletCtor, BTC, d[1]),
                                        ETH, d[2]), USDT, d[3])
         IN balances_ = w.bal /\ locked_ = w.lck
    /\ txs = <<>>
    /\ call = Called("none", 0, <<>>, TRUE)
    /\ snap = <<>>
    /\ ScannerCtor({})
    /\ SimulatorCtor(TRUE, {1})
    /\ ExtCtor

PtNext ==
    \/ \E t \in ExecTriangles, obs \in BookTriples : ExecEnter(1, t, obs)
    \/ ExecLock(1)
    \/ LeafAcquire(1)
    \/ LeafRelease(1)
    \/ \E outcome \in PartialOutcomes : ExecLeg(1, outcome)
    \/ \E outcome \in OrderOutcomes : ExecReverse(1, outcome)
    \/ ExecRollback(1)
    \/ ExecCommit(1)
    \/ ExecCount(1)
    \/ ExecSum(1)

SpecPartial == PtInit /\ [][PtNext]_vars

\* the base quantity leg i of the call of thread p filled on the exchange,
\* as doLegLive applied it to the wallet: res.filledQuantity
FilledOnVenue(p, i) ==
    IF IsSell(ParseSymbol(triangles_[ex[p].tri].path[i]).quote)
    THEN -(ex[p].tx.changes[2 * i - 1].deltaBalance)
    ELSE ex[p].tx.changes[2 * i].deltaBalance

\* C33: the market order that reverses a successful live leg is for the base
\* quantity the leg filled on the exchange, also when the leg was filled in
\* part.  (Violated: the quantity kept for the reversal is the desired one.)
C33_ReversalQuantity ==
    [][(ex[1].pc = "reverse" /\ Len(orders') = Len(orders) + 1) =>
         /\ orders'[Len(orders')].reversal
         /\ orders'[Len(orders')].symbol = triangles_[ex[1].tri].path[ex[1].rev]
         /\ orders'[Len(orders')].qty = FilledOnVenue(1, ex[1].rev)]_vars

\* the execute of thread 1 that returned last was call number execs
\* C39: when a live execute has returned false, every market order of the
\* call that the executor answered with success and a positive filled
\* quantity, the order of the failing leg included, is followed by an order
\* of the opposite side for the same symbol placed as a reversal.
\* (Violated: the failing leg is never reversed.)
C39_NoUnreversedFill ==
    (ex[1].pc = "idle" /\ ~ex[1].ret) =>
      \A k \in 1..Len(orders) :
        (orders[k].id = execs /\ ~orders[k].reversal
         /\ orders[k].success /\ orders[k].filled > 0) =>
          \E j \in (k + 1)..Len(orders) :
            /\ orders[j].id = execs /\ orders[j].reversal
            /\ orders[j].symbol = orders[k].symbol
            /\ orders[j].sell = ~orders[k].sell

\* ------------------------------------------------ publishing and notifying
\* onCombinedMessage and getOrderBook one access at a time: the worker of
\* startCombinedWebSocket handles the messages of its streams one after the
\* other, a thread of the scanner reads books.  The n-th message for a symbol
\* carries the level (n, 1) on both sides.  A mutex is a node of mutexes_;
\* <<symbol, 0>> is the node the map holds, <<symbol, t>> a node thread t
\* created with operator[] while another thread was inserting into the map
\* with no lock held either, and that the map lost.

PubWorker == 1

PubReader == 2

PubThreads == {PubWorker, PubReader}

PubSymbols == {BTC \o USDT, ETH \o USDT}

\* messages per symbol and reads begun
MaxPubMsgs == 2

MaxPubGets == 2

PubBook(n) == [bids |-> <<Level(n, 1)>>, asks |-> <<Level(n, 1)>>]

NoBook == [bids |-> <<>>, asks |-> <<>>]

PubIdle == [pc |-> "idle", symbol |-> <<>>, ops |-> 0, mtx |-> <<>>, msg |-> 0,
            stamped |-> 0, got |-> NoBook]

PubCtor ==
    [phase |-> "loading", globalMutex_ |-> 0, held |-> {},
     th |-> [t \in PubThreads |-> PubIdle],
     arrived |-> [s \in PubSymbols |-> 0],
     log |-> {}]

PbInit ==
    /\ balances_ = [a \in {BTC, ETH, USDT} |-> 0]
    /\ locked_ = [a \in {BTC, ETH, USDT} |-> 0]
    /\ txs = <<>>
    /\ call = Called("none", 0, <<>>, TRUE)
    /\ snap = <<>>
    /\ ScannerCtor({})
    /\ SimulatorCtor(FALSE, {})
    /\ OrderBookManagerCtor
    /\ WorkersCtor({})
    /\ throttle = ExecutorCtor(0)
    /\ disk = <<>>
    /\ pool = <<>>
    /\ store = PubCtor

notPub == <<walletVars, simVars, connVars, throttle, disk, pool, lastAttemptMap_,
            failTimestamps_, lastProfits_, totalTrades_, scan, lastStart,
            exchangeInfo, adjacencyOrder, bfsTriangles, bfsIndex, bestTriangles_, feed>>

PubMoved(t, pc) == [store EXCEPT !.th[t].pc = pc]

\* the websocket's message handler is entered with the next message for
\* symbol, parsed and sorted
PubMessage(symbol) ==
    /\ store.phase = "streaming"
    /\ store.th[PubWorker].pc = "idle"
    /\ store.arrived[symbol] < MaxPubMsgs
    /\ store' = [store EXCEPT !.arrived[symbol] = @ + 1,
                              !.th[PubWorker] = [@ EXCEPT !.pc = "msg:mutex",
                                                          !.symbol = symbol,
                                                          !.msg = store.arrived[symbol] + 1]]
    /\ UNCHANGED <<mutexes_, books_, lastMsgTime_, now, notPub>>

\* getOrderBook(symbol) is called
PubGet(symbol) ==
    /\ store.phase = "streaming"
    /\ store.th[PubReader].pc = "idle"
    /\ store.th[PubReader].ops < MaxPubGets
    /\ store' = [store EXCEPT !.th[PubReader] = [@ EXCEPT !.pc = "get:mutex",
                                                          !.symbol = symbol,
                                                          !.ops = @ + 1]]
    /\ UNCHANGED <<mutexes_, books_, lastMsgTime_, now, notPub>>

\* another thread is inserting into mutexes_ too
PubRacing(t) ==
    \E u \in PubThreads \ {t} :
      /\ store.th[u].pc \in {"msg:mutex", "get:mutex"}
      /\ store.th[u].symbol \notin mutexes_

\* mutexes_[symbol], the argument of the lock_guard: the node of the symbol,
\* inserted when the symbol has none; of two insertions at once the map
\* keeps or loses this one
PubUseMutexes(t) ==
    /\ store.th[t].pc \in {"msg:mutex", "get:mutex"}
    /\ \E kept \in IF store.th[t].symbol \in mutexes_ THEN {TRUE}
                   ELSE IF PubRacing(t) THEN {TRUE, FALSE} ELSE {TRUE} :
         /\ mutexes_' = IF kept THEN mutexes_ \cup {store.th[t].symbol} ELSE mutexes_
         /\ store' = [PubMoved(t, SubSeq(store.th[t].pc, 1, 3) \o ":lock")
                        EXCEPT !.th[t].mtx = <<store.th[t].symbol, IF kept THEN 0 ELSE t>>,
                               !.log = IF store.th[t].symbol \in mutexes_ THEN @
                                       ELSE @ \cup {[thread |-> t, map |-> "mutexes_",
                                                     symbol |-> store.th[t].symbol,
                                                     global |-> FALSE,
                                                     raced |-> PubRacing(t)]}]
    /\ UNCHANGED <<books_, lastMsgTime_, now, notPub>>

\* the lock_guard on that mutex
PubLock(t) ==
    /\ store.th[t].pc \in {"msg:lock", "get:lock"}
    /\ store.th[t].mtx \notin store.held
    /\ store' = [PubMoved(t, IF t = PubWorker THEN "msg:bids" ELSE "get:count")
                   EXCEPT !.held = @ \cup {store.th[t].mtx}]
    /\ UNCHANGED <<mutexes_, books_, lastMsgTime_, now, notPub>>

\* books_[symbol] = {newBids, newAsks}: operator[] inserts an empty book
\* when the symbol has none, the assignment copies bids
PubAssignBids ==
    /\ store.th[PubWorker].pc = "msg:bids"
    /\ books_' = Put(books_, store.th[PubWorker].symbol,
                     [bids |-> PubBook(store.th[PubWorker].msg).bids,
                      asks |-> GetOrderBook(books_, store.th[PubWorker].symbol).asks])
    /\ store' = PubMoved(PubWorker, "msg:asks")
    /\ UNCHANGED <<mutexes_, lastMsgTime_, now, notPub>>

\* ... then asks; the lock_guard's scope ends
PubAssignAsks ==
    /\ store.th[PubWorker].pc = "msg:asks"
    /\ books_' = Put(books_, store.th[PubWorker].symbol,
                     [bids |-> books_[store.th[PubWorker].symbol].bids,
                      asks |-> PubBook(store.th[PubWorker].msg).asks])
    /\ store' = [PubMoved(PubWorker, "msg:global")
                   EXCEPT !.held = @ \ {store.th[PubWorker].mtx}]
    /\ UNCHANGED <<mutexes_, lastMsgTime_, now, notPub>>

\* the lock_guard on globalMutex_
PubLockGlobal ==
    /\ store.th[PubWorker].pc = "msg:global"
    /\ store.globalMutex_ = 0
    /\ store' = [PubMoved(PubWorker, "msg:stamp") EXCEPT !.globalMutex_ = PubWorker]
    /\ UNCHANGED <<mutexes_, books_, lastMsgTime_, now, notPub>>

\* lastMsgTime_[symbol] = steady_clock::now(); the scope ends
PubStamp ==
    /\ store.th[PubWorker].pc = "msg:stamp"
    /\ now' = now + 1
    /\ lastMsgTime_' = Put(lastMsgTime_, store.th[PubWorker].symbol, now')
    /\ store' = [PubMoved(PubWorker, "msg:notify")
                   EXCEPT !.globalMutex_ = 0, !.th[PubWorker].stamped = now']
    /\ UNCHANGED <<mutexes_, books_, notPub>>

\* scanner_->scanTrianglesForSymbol(symbol), and the handler returns
PubNotify ==
    /\ store.th[PubWorker].pc = "msg:notify"
    /\ store' = PubMoved(PubWorker, "idle")
    /\ UNCHANGED <<mutexes_, books_, lastMsgTime_, now, notPub>>

\* getOrderBook: books_.count(symbol) == 0 returns an empty book; otherwise
\* the copy of books_[symbol] begins with bids
PubCount ==
    /\ store.th[PubReader].pc = "get:count"
    /\ IF store.th[PubReader].symbol \notin DOMAIN books_
       THEN store' = [PubMoved(PubReader, "idle")
                        EXCEPT !.held = @ \ {store.th[PubReader].mtx},
                               !.th[PubReader].got = NoBook]
       ELSE store' = [PubMoved(PubReader, "get:asks")
                        EXCEPT !.th[PubReader].got =
                                 [bids |-> books_[store.th[PubReader].symbol].bids,
                                  asks |-> <<>>]]
    /\ UNCHANGED <<mutexes_, books_, lastMsgTime_, now, notPub>>

\* ... then asks; the copy is returned and the lock_guard's scope ends
PubCopyAsks ==
    /\ store.th[PubReader].pc = "get:asks"
    /\ store' = [PubMoved(PubReader, "idle")
                   EXCEPT !.held = @ \ {store.th[PubReader].mtx},
                          !.th[PubReader].got.asks = books_[store.th[PubReader].symbol].asks]
    /\ UNCHANGED <<mutexes_, books_, lastMsgTime_, now, notPub>>

PbNext ==
    \/ StoreStart(BTC \o USDT \o FWD)
    \/ StoreSpawn
    \/ \E symbol \in PubSymbols : PubMessage(symbol)
    \/ \E symbol \in PubSymbols : PubGet(symbol)
    \/ \E t \in PubThreads : PubUseMutexes(t)
    \/ \E t \in PubThreads : PubLock(t)
    \/ PubAssignBids
    \/ PubAssignAsks
    \/ PubLockGlobal
    \/ PubStamp
    \/ PubNotify
    \/ PubCount
    \/ PubCopyAsks

SpecPublish == PbInit /\ [][PbNext]_vars

\* the message a stored book came from, 0 for no book
MsgOf(book) == IF book.bids = <<>> THEN 0 ELSE book.bids[1].price

\* C34: the books of one symbol are replaced in the order the messages
\* arrived; when the scanner is notified for a symbol the store holds the
\* book and the stamp of the message that caused the notification; and a
\* getOrderBook returns the complete book of one message (or the empty book
\* of a symbol that has none), never bids of one message with asks of another.
C34_PublishBeforeNotify ==
    [][/\ \A s \in DOMAIN books_' :
            MsgOf(books_'[s]) # MsgOf(GetOrderBook(books_, s)) =>
              MsgOf(books_'[s]) = MsgOf(GetOrderBook(books_, s)) + 1
       /\ (store.th[PubWorker].pc = "msg:notify" /\ store'.th[PubWorker].pc = "idle") =>
            /\ GetOrderBook(books_, store.th[PubWorker].symbol)
                 = PubBook(store.th[PubWorker].msg)
            /\ store.th[PubWorker].symbol \in DOMAIN lastMsgTime_
            /\ lastMsgTime_[store.th[PubWorker].symbol] = store.th[PubWorker].stamped
       /\ (store.th[PubReader].pc \in {"get:count", "get:asks"}
           /\ store'.th[PubReader].pc = "idle") =>
            \/ store'.th[PubReader].got = NoBook
            \/ \E n \in 1..MaxPubMsgs : store'.th[PubReader].got = PubBook(n)]_vars

\* ------------------------------------------------------------- ThreadPool
\* pool.tasks_ is the queue (task numbers in the order they were pushed),
\* pool.task the tasks in the order submit accepted them, pool.main the
\* thread that owns the scanner, pool.w the workers.  The workers run the
\* same loop and nothing tells one from another, so pool.w is the bag of
\* their positions: "lock" (about to take queueMutex_ and test the predicate
\* of the wait), "blocked" (inside condition_.wait), "run" and the "t:"
\* positions (inside task()), "exited".  Every step that holds queueMutex_
\* is one action.

PoolThread(pc) == [pc |-> pc, task |-> 0, futs |-> <<>>, idx |-> 0]

\* ThreadPool(threadCount); the owner is at pc with the symbols todo
PoolCtor(threadCount, pc, todo) ==
    [stop_ |-> FALSE, tasks_ |-> <<>>, task |-> <<>>, rejected |-> 0, calls |-> 0,
     dtor |-> "none",
     main |-> [PoolThread(pc) EXCEPT !.pc = pc] @@ [todo |-> todo],
     w |-> [s \in {PoolThread("lock")} |-> threadCount]]

\* the positions workers are at
workers_ == BagToSet(pool.w)

\* pool with one worker moved from position s to position s2
Step(p, s, s2) ==
    [p EXCEPT !.w = (@ (-) SetToBag({s})) (+) SetToBag({s2})]

notPool == <<walletVars, scannerVars, simVars, marketVars, connVars, throttle, disk, store>>

\* taking from the other end of the queue
Front_Back(tasks) ==
    [task |-> tasks[Len(tasks)], rest |-> SubSeq(tasks, 1, Len(tasks) - 1)]

\* tasks_.front() and tasks_.pop()
Front(tasks) == [task |-> Head(tasks), rest |-> Tail(tasks)]

\* the worker's wait returns at once or after a wake-up, and a task is
\* taken; task() is entered (a task that runs scanTrianglesForSymbol is at
\* "t:submit" from the start)
PoolTake(s) ==
    /\ s.pc = "lock"
    /\ pool.tasks_ # <<>>
    /\ \E f \in {Front(pool.tasks_)} :
         pool' = Step([pool EXCEPT !.tasks_ = f.rest,
                                   !.task[f.task].state = "running",
                                   !.task[f.task].runs = @ + 1],
                      s, [s EXCEPT !.task = f.task,
                                   !.pc = IF pool.task[f.task].kind = "scan"
                                          THEN "t:submit" ELSE "run"])
    /\ UNCHANGED notPool

\* the predicate stop_ || !tasks_.empty() is false: the worker waits
PoolWait(s) ==
    /\ s.pc = "lock"
    /\ pool.tasks_ = <<>>
    /\ ~pool.stop_
    /\ pool' = Step(pool, s, [s EXCEPT !.pc = "blocked"])
    /\ UNCHANGED notPool

\* if (stop_ && tasks_.empty()) return
PoolExit(s) ==
    /\ s.pc = "lock"
    /\ pool.tasks_ = <<>>
    /\ pool.stop_
    /\ pool' = Step(pool, s, [s EXCEPT !.pc = "exited"])
    /\ UNCHANGED notPool

\* a wait may return with no notification; the predicate is tested again
\* (and the worker waits again when it is false, which changes nothing)
PoolSpurious(s) ==
    /\ s.pc = "blocked"
    /\ pool.stop_ \/ pool.tasks_ # <<>>
    /\ pool' = Step(pool, s, [s EXCEPT !.pc = "lock"])
    /\ UNCHANGED notPool

\* condition_.notify_one(): one of the workers inside the wait, if any
NotifyOne(p) ==
    IF BagIn(PoolThread("blocked"), p.w)
    THEN Step(p, PoolThread("blocked"), PoolThread("lock"))
    ELSE p

\* submit, stop_ being false: the task is pushed under queueMutex_, then
\* notify_one
Submit(p, kind, sym) ==
    NotifyOne([p EXCEPT !.task = Append(@, [kind |-> kind, sym |-> sym,
                                            state |-> "queued", runs |-> 0]),
                        !.tasks_ = Append(@, Len(p.task) + 1)])

\* the task returned: the future is ready, the worker is back at the wait
TaskReturned(s) ==
    Step([pool EXCEPT !.task[s.task].state = "ready"], s, PoolThread("lock"))

\* a task that computes and returns (calculateProfit, the sentinel)
PoolRunScore(s) ==
    /\ s.pc = "run"
    /\ pool' = TaskReturned(s)
    /\ UNCHANGED notPool

\* symbolToTriangles_ when the triangles cat were loaded: the entries of
\* symbolToTriangles_[sym] that are in cat
RECURSIVE Loaded(_, _)
Loaded(cat, indices) ==
    IF indices = <<>> THEN <<>>
    ELSE (IF Head(indices) \in cat THEN <<Head(indices)>> ELSE <<>>)
         \o Loaded(cat, Tail(indices))

LoadedSymbols(cat) ==
    {sym \in DOMAIN symbolToTriangles_ : Loaded(cat, symbolToTriangles_[sym]) # <<>>}

\* int limit = std::min<int>((int)allTris.size(), TOP_TRIANGLE_LIMIT)
ScanLimit(cat, sym) ==
    IF Len(Loaded(cat, symbolToTriangles_[sym])) < TOP_TRIANGLE_LIMIT
    THEN Len(Loaded(cat, symbolToTriangles_[sym])) ELSE TOP_TRIANGLE_LIMIT

\* scanTrianglesForSymbol inside a task: futs.push_back(pool_.submit(...))
\* for each of the first limit triangles, blacklisted or not
ScanSubmit(s) ==
    /\ s.pc = "t:submit"
    /\ ~pool.stop_
    /\ IF Len(s.futs) < ScanLimit(pool.cat, pool.task[s.task].sym)
       THEN pool' = Submit(Step(pool, s, [s EXCEPT !.futs = Append(@, Len(pool.task) + 1)]),
                           "score", <<>>)
       ELSE pool' = Step(pool, s, [s EXCEPT !.pc = "t:get", !.idx = 1])
    /\ UNCHANGED notPool

\* profits[i] = futs[futIndex++].get(): returns once that task has returned;
\* after the last one the rest of the scan runs and the task returns
ScanGet(s) ==
    /\ s.pc = "t:get"
    /\ pool.task[s.futs[s.idx]].state = "ready"
    /\ pool' = IF s.idx < Len(s.futs)
               THEN Step(pool, s, [s EXCEPT !.idx = @ + 1])
               ELSE TaskReturned(s)
    /\ UNCHANGED notPool

\* the symbol the iteration over symbolToTriangles_ comes to next: the map
\* iterates in one order, whatever it is
NextSymbol(todo) == CHOOSE sym \in todo : TRUE

\* scanAllSymbolsConcurrently: one task per symbol of symbolToTriangles_,
\* in the order the map iterates
ScanAllSubmit ==
    /\ pool.main.pc = "submit"
    /\ ~pool.stop_
    /\ IF pool.main.todo # {}
       THEN \E sym \in {NextSymbol(pool.main.todo)} :
              pool' = Submit([pool EXCEPT !.main.futs = Append(@, Len(pool.task) + 1),
                                          !.main.todo = @ \ {sym}],
                             "scan", sym)
       ELSE pool' = [pool EXCEPT !.main.pc = "wait", !.main.idx = 1]
    /\ UNCHANGED notPool

\* for (auto& f : futs) f.wait()
ScanAllWait ==
    /\ pool.main.pc = "wait"
    /\ pool.task[pool.main.futs[pool.main.idx]].state = "ready"
    /\ pool' = IF pool.main.idx < Len(pool.main.futs)
               THEN [pool EXCEPT !.main.idx = @ + 1]
               ELSE [pool EXCEPT !.main.pc = "done"]
    /\ UNCHANGED notPool

\* the catalogs loaded: one self-cycle (one symbol, three tasks), one
\* triangle (three symbols), two triangles (four symbols)
PoolCatalogs == {{3}, {1}, {1, 2}}

\* pool_(4)
ScannerPoolSize == 4

PoolRest ==
    /\ balances_ = [a \in {BTC, ETH, USDT} |-> 0]
    /\ locked_ = [a \in {BTC, ETH, USDT} |-> 0]
    /\ txs = <<>>
    /\ call = Called("none", 0, <<>>, TRUE)
    /\ snap = <<>>
    /\ ScannerCtor({})
    /\ SimulatorCtor(FALSE, {})
    /\ OrderBookManagerCtor
    /\ WorkersCtor({})
    /\ throttle = ExecutorCtor(0)
    /\ disk = <<>>
    /\ store = <<>>

SaInit ==
    /\ PoolRest
    /\ \E cat \in PoolCatalogs :
         pool = [cat |-> cat] @@ PoolCtor(ScannerPoolSize, "submit", LoadedSymbols(cat))

SaNext ==
    \/ ScanAllSubmit
    \/ ScanAllWait
    \/ \E s \in workers_ : PoolTake(s)
    \/ \E s \in workers_ : PoolWait(s)
    \/ \E s \in workers_ : PoolSpurious(s)
    \/ \E s \in workers_ : PoolRunScore(s)
    \/ \E s \in workers_ : ScanSubmit(s)
    \/ \E s \in workers_ : ScanGet(s)

SpecScanAll == SaInit /\ [][SaNext]_vars

\* a worker at s waits for a future whose task is still in the queue
WaitsForQueued(s) ==
    /\ s.pc = "t:get"
    /\ pool.task[s.futs[s.idx]].state = "queued"

\* C35: while scanAllSymbolsConcurrently runs on the pool of four workers,
\* with tasks that submit to the same pool and wait for the futures, the
\* pool is never in a state where every worker waits for a task that is
\* still queued, so the scan always completes.
C35_ScanAllTerminates ==
    ~ \A s \in workers_ : WaitsForQueued(s)

\* ------------------------------------------------- the pool by itself
\* A pool of PoolSize workers, an owner that submits tasks that return, and
\* the destructor, which may begin at any time; submit may be called until
\* the destructor has returned.

PoolSize == 2

\* calls of submit
MaxPoolTasks == 4

\* submit(f): throws std::runtime_error when stop_, else pushes and notifies
PoolSubmit ==
    /\ pool.main.pc = "idle"
    /\ pool.dtor # "joined"
    /\ pool.calls < MaxPoolTasks
    /\ pool' = IF pool.stop_
               THEN [pool EXCEPT !.rejected = @ + 1, !.calls = @ + 1]
               ELSE Submit([pool EXCEPT !.calls = @ + 1,
                                        !.main.futs = Append(@, Len(pool.task) + 1)],
                           "score", <<>>)
    /\ UNCHANGED notPool

\* ~ThreadPool: stop_ = true under queueMutex_, condition_.notify_all()
PoolStop ==
    /\ pool.dtor = "none"
    /\ pool' = [pool EXCEPT !.stop_ = TRUE,
                            !.dtor = "joining",
                            !.w = [s \in {IF x.pc = "blocked" THEN PoolThread("lock") ELSE x
                                          : x \in DOMAIN pool.w} |->
                                     IF s = PoolThread("lock")
                                     THEN CopiesIn(PoolThread("lock"), pool.w)
                                          + CopiesIn(PoolThread("blocked"), pool.w)
                                     ELSE pool.w[s]]]
    /\ UNCHANGED notPool

\* ... worker.join() for every worker
PoolJoin ==
    /\ pool.dtor = "joining"
    /\ workers_ = {PoolThread("exited")}
    /\ pool' = [pool EXCEPT !.dtor = "joined"]
    /\ UNCHANGED notPool

TpInit ==
    /\ PoolRest
    /\ pool = [cat |-> {}] @@ PoolCtor(PoolSize, "idle", {})

WorkerStep ==
    \/ \E s \in workers_ : PoolTake(s)
    \/ \E s \in workers_ : PoolRunScore(s)
    \/ \E s \in workers_ : PoolExit(s)

TpNext ==
    \/ PoolSubmit
    \/ PoolStop
    \/ PoolJoin
    \/ \E s \in workers_ : PoolTake(s)
    \/ \E s \in workers_ : PoolWait(s)
    \/ \E s \in workers_ : PoolExit(s)
    \/ \E s \in workers_ : PoolSpurious(s)
    \/ \E s \in workers_ : PoolRunScore(s)

SpecPool == TpInit /\ [][TpNext]_vars

\* a worker that can take a task, return from one or exit does so
SpecPoolFair == SpecPool /\ WF_vars(WorkerStep)

\* the tasks in the state st
TasksIn(st) == {id \in 1..Len(pool.task) : pool.task[id].state = st}

PoolSafe ==
    /\ \A id \in 1..Len(pool.task) :
         /\ pool.task[id].runs = (IF pool.task[id].state = "queued" THEN 0 ELSE 1)
         /\ (pool.task[id].state = "queued") = (\E k \in 1..Len(pool.tasks_) : pool.tasks_[k] = id)
    /\ Cardinality(TasksIn("running")) <= PoolSize
    /\ Len(pool.task) + pool.rejected = pool.calls
    /\ BagIn(PoolThread("exited"), pool.w) => pool.stop_ /\ pool.tasks_ = <<>>
    /\ pool.dtor = "joined" => TasksIn("ready") = 1..Len(pool.task)

PoolSteps ==
    /\ \A id \in 1..Len(pool.task) :
         (pool.task[id].state = "queued" /\ pool'.task[id].state # "queued") =>
           /\ pool'.task[id].state = "running"
           /\ \A other \in TasksIn("queued") : id <= other
    /\ (pool.stop_ /\ pool'.calls # pool.calls) =>
         /\ pool'.rejected = pool.rejected + 1
         /\ pool'.task = pool.task
         /\ pool'.tasks_ = pool.tasks_

C37_RollbackAfterSetBalance ==
    [][(/\ call.op = "setBalance"
        /\ call'.op = "rollback"
        /\ txs[call'.tx].active
        /\ \E k \in 1..Len(txs[call'.tx].changes) :
             txs[call'.tx].changes[k].asset = call.arg[1])
       => balances_'[call.arg[1]] = call.arg[2]]_vars

\* ------------------------------------------- the estimate and the local legs
\* simulateTradeDepthWithWallet in local mode by one thread, the wallet
\* touched by nobody else, under configurations with maxFractionPerTrade 0.5
\* and 1.  LevelsBook has two bid levels at one price, the first smaller than
\* what is sold.

AgreeFractions == {<<1, 2>>, <<1, 1>>}

LevelsBook == [bids |-> <<[price |-> 10, quantity |-> 3],
                          [price |-> 10, quantity |-> 16]>>,
               asks |-> <<[price |-> 12, quantity |-> 8]>>]

AgreeBooks == {<<GoodBook, GoodBook, GoodBook>>, <<LevelsBook, GoodBook, GoodBook>>,
               <<GoodBook, LevelsBook, LevelsBook>>, <<GoodBook, EmptyBook, GoodBook>>,
               <<DearBook, CheapBook, GoodBook>>}

\* <<BTC, ETH, USDT>> deposited before trading starts
AgreeBalances == {<<4, 4, 1>>, <<14, 16, 1>>, <<16, 14, 0>>}

AgInit ==
    /\ \E d \in AgreeBalances :
         LET w == SetBalance(SetBalance(SetBalance(WalletCtor, BTC, d[1]),
                                        ETH, d[2]), USDT, d[3])
         IN balances_ = w.bal /\ locked_ = w.lck
    /\ txs = <<>>
    /\ call = Called("none", 0, <<>>, TRUE)
    /\ snap = <<>>
    /\ ScannerCtor({})
    /\ \E fraction \in AgreeFractions :
         SimulatorOf([maxFractionPerTrade |-> fraction], FALSE, {1})
    /\ ExtCtor

AgNext ==
    \/ \E t \in ExecTriangles, obs \in AgreeBooks : ExecEnter(1, t, obs)
    \/ ExecLock(1)
    \/ LeafAcquire(1)
    \/ LeafRelease(1)
    \/ \E outcome \in OrderOutcomes : ExecLeg(1, outcome)
    \/ ExecRollback(1)
    \/ ExecCommit(1)
    \/ ExecCount(1)
    \/ ExecSum(1)

SpecAgree == AgInit /\ [][AgNext]_vars

\* fakeUSDT, fakeBTC, fakeETH of the estimate after its first k legs
RECURSIVE FakeAfter(_, _, _, _)
FakeAfter(w, tri, obs, k) ==
    IF k = 0 THEN [a \in {USDT, BTC, ETH} |-> GetFreeBalance(w, a)]
    ELSE SimulateLegFake(FakeAfter(w, tri, obs, k - 1), tri.path[k], obs[k]).fake

\* filled and cost of the walk of leg k of the estimate
FakeFill(w, tri, obs, k) ==
    LET bq == ParseSymbol(tri.path[k])
        isSell == IsSell(bq.quote)
        fake == FakeAfter(w, tri, obs, k - 1)
        freeAmt == IF isSell
                   THEN (IF bq.base \in {BTC, ETH} THEN fake[bq.base] ELSE 0)
                   ELSE FakeGet(fake, bq.quote)
        rawSpend == FMulQ(freeAmt, maxFractionPerTrade_)
    IN Fill(IF isSell THEN obs[k].bids ELSE obs[k].asks,
            IF isSell THEN rawSpend ELSE FDiv(rawSpend, BestPx(isSell, obs[k])))

\* the two changes leg k of the execute recorded are those of the estimate's
\* filled quantity and cost
LegAgrees(p, k) ==
    LET tri == triangles_[ex[p].tri]
        bq == ParseSymbol(tri.path[k])
        isSell == IsSell(bq.quote)
        f == FakeFill(ex[p].snap, tri, ex[p].obs, k)
        base == [asset |-> bq.base,
                 deltaBalance |-> IF isSell THEN -f.filled ELSE f.filled,
                 deltaLocked |-> 0]
        quote == [asset |-> bq.quote,
                  deltaBalance |-> IF isSell THEN NetOf(TRUE, f.cost)
                                   ELSE -NetOf(FALSE, f.cost),
                  deltaLocked |-> 0]
    IN /\ ex[p].tx.changes[2 * k - 1] = IF isSell THEN base ELSE quote
       /\ ex[p].tx.changes[2 * k] = IF isSell THEN quote ELSE base

\* the legs the execute has completed
LegsDone(p) ==
    IF ex[p].pc = "commit" THEN 3
    ELSE IF ex[p].sec > ApplySection THEN ex[p].leg ELSE ex[p].leg - 1

\* C38: in local mode, with maxFractionPerTrade at most 1 and the wallet
\* touched by no other thread, an execute that passed the profit checks of
\* its entry never fails with LEG1_FAIL, LEG2_FAIL or LEG3_FAIL, and every
\* leg it has made changed the wallet by the filled quantity and the cost
\* the estimate computed for that leg on the same books.
C38_EstimateExecuteAgreement ==
    /\ failReason[1] \notin {"LEG1_FAIL", "LEG2_FAIL", "LEG3_FAIL"}
    /\ ex[1].pc \in {"leg", "commit"} =>
         \A k \in 1..LegsDone(1) : LegAgrees(1, k)

\* the same under the default configuration, maxFractionPerTrade 0.5
AgreesAtHalf ==
    cfg.maxFractionPerTrade = <<1, 2>> => C38_EstimateExecuteAgreement

\* the legs agree with the estimate whenever they are made
LegsAgree ==
    ex[1].pc \in {"leg", "commit"} => \A k \in 1..LegsDone(1) : LegAgrees(1, k)

CommittedThree == ex[1].pc = "commit" /\ Len(ex[1].tx.changes) = 6

\* ------------------------------------------------------ the trade counters
\* thread p completes ++totalTrades_ / cumulativeProfit_ += absoluteProfit
CompletesCount(p) == ex[p].pc = "count" /\ ex'[p].pc = "sum"

CompletesSum(p) == ex[p].pc = "sum" /\ ex'[p].pc = "idle"

\* C40: every execute that commits with a realized profit above the cut-off
\* raises totalTrades_ by one and cumulativeProfit_ by its profit, also while
\* an execute of a disjoint cycle runs concurrently, and nothing else changes
\* either counter: not a failed execute, and not a commit below the cut-off.
C40_CounterConsistency ==
    [][/\ \A p \in ExecThreads :
            /\ CompletesCount(p) => totalTrades_' = totalTrades_ + 1
            /\ CompletesSum(p) =>
                 cumulativeProfit_' = FAdd(cumulativeProfit_, ex[p].absoluteProfit)
       /\ totalTrades_' # totalTrades_ => \E p \in ExecThreads : CompletesCount(p)
       /\ cumulativeProfit_' # cumulativeProfit_ => \E p \in ExecThreads : CompletesSum(p)]_vars

\* a thread is about to store a count it loaded before another thread's
\* store: the other thread's increment is lost
StaleCount ==
    \E p \in ExecThreads : ex[p].pc = "count" /\ ex[p].reg < totalTrades_

====
